---- MODULE Spec2Model ----
(***************************************************************************)
(* A model of ccEvo: the PCEC scheduler, the solidification pipeline and   *)
(* the evolution engine cycle, the ADL gate, and the capability tree.      *)
(* Each part has its own variables and its own specification; a            *)
(* specification leaves the variables of the other parts at their idle     *)
(* values.                                                                 *)
(***************************************************************************)
EXTENDS Integers, Sequences, FiniteSets, TLC

VARIABLES
    \* ---- PCECScheduler (src/src/pcec/scheduler.js)
    running,      \* this.running
    timer,        \* this.timer: NoTimer (null) or the handle setTimeout returned
    armed,        \* handles of the timeouts that are set and have neither fired nor been cleared
    inflight,     \* timer callbacks that are suspended in `await this.runOnce()`
    manual,       \* runOnce() calls made directly by a caller and not yet settled
    cycleCount,   \* this.cycleCount
    timerCycles,  \* history: number of cycle callbacks started by a timer
    manualRuns,   \* history: number of direct runOnce() calls
    lastOp,       \* history: the operation that ran last
    \* ---- the ADL gate called on its own (src/unnamed/part_008, adl/lock)
    adlMutation,  \* the mutation argument of checkADL
    adlBlast,     \* the blast argument of checkADL
    adlHistory,   \* the capsuleHistory argument
    adlResult,    \* what checkADL returned
    hsrResult,    \* what hasStabilityRegression returned
    \* ---- the asset store, solidify and the engine (gep/store, core/solidify, core/engine)
    genes,        \* genes.json
    capsules,     \* capsules.json
    events,       \* events.jsonl
    engine,       \* the EvolutionEngine instance: options, personality, cycleCount
    res,          \* what the last solidify() or runCycle() returned
    trace,        \* history: the calls the last operation made, in order
    \* ---- the capability tree (tree/tree)
    treeRoot,     \* this.data.root
    treeNodes,    \* this.data.nodes: id -> node
    treeOrder,    \* the keys of this.data.nodes in insertion order (the order of Object.entries)
    inherited,    \* children arrays left on members inherited from Object.prototype
    treeRes,      \* the last tree call: its argument and whether it threw
    now,          \* Date.now(), in clock ticks
    \* ---- a function called on its own (gep/mutation, gep/gene, core/selector, tree/pruner)
    call,         \* the function called and its arguments
    ret,          \* what it returned
    \* ---- PCEC cycles (src/unnamed/part_007, pcec/cycle)
    stagnantCount, \* the module-level stagnantCount
    pcecCycles,    \* the PCECCycle instances constructed so far, in order
    completions,   \* history: what each complete() call returned, in order
    pcecOp,        \* history: the last PCEC call
    \* ---- the file of the capability tree (gep/store, tree/tree)
    treeFile,      \* assets/capability_tree.json: absent, or its text
    treeData,      \* this.data apart from root and nodes: an array and its elements, or an object
    \* ---- the interval of the scheduler (pcec/scheduler)
    intervals,     \* this.intervalMs, this.minIntervalMs, this.maxIntervalMs
    adjustments,   \* history: the adjustInterval calls made, in order
    \* ---- writers of the asset store (gep/store)
    writers,       \* each writer: the calls it is to make, its place in addCapsule, what it loaded
    storeFiles,    \* capsules.json and events.jsonl: absent, or their text
    appendLog      \* history: the events appended, in the order of the appends

schedVars == <<running, timer, armed, inflight, manual, cycleCount, timerCycles,
               manualRuns, lastOp>>

adlVars == <<adlMutation, adlBlast, adlHistory, adlResult, hsrResult>>

pipeVars == <<genes, capsules, events, engine, res, trace>>

treeVars == <<treeRoot, treeNodes, treeOrder, inherited, treeRes, now>>

callVars == <<call, ret>>

pcecVars == <<stagnantCount, pcecCycles, completions, pcecOp>>

fileVars == <<treeFile, treeData>>

intervalVars == <<intervals, adjustments>>

writerVars == <<writers, storeFiles, appendLog>>

vars == <<schedVars, adlVars, pipeVars, treeVars, callVars, pcecVars, fileVars, intervalVars, writerVars>>

\* what each part leaves alone
NotSched == <<adlVars, pipeVars, treeVars, callVars, pcecVars, fileVars, intervalVars,
    writerVars>>
NotAdl == <<schedVars, pipeVars, treeVars, callVars, pcecVars, fileVars, intervalVars,
    writerVars>>
NotPipe == <<schedVars, adlVars, treeVars, callVars, pcecVars, fileVars, intervalVars,
    writerVars>>
NotTree == <<schedVars, adlVars, pipeVars, callVars, pcecVars, fileVars, intervalVars,
    writerVars>>
NotCall == <<schedVars, adlVars, pipeVars, treeVars, pcecVars, fileVars, intervalVars,
    writerVars>>
NotPcec == <<schedVars, adlVars, pipeVars, treeVars, callVars, fileVars, intervalVars,
    writerVars>>
NotTreeStore == <<schedVars, adlVars, pipeVars, callVars, pcecVars, intervalVars,
    writerVars>>
NotInterval == <<schedVars, adlVars, pipeVars, treeVars, callVars, pcecVars, fileVars,
    writerVars>>
NotWriter == <<schedVars, adlVars, pipeVars, treeVars, callVars, pcecVars, fileVars,
    intervalVars>>

(***************************************************************************)
(* Bounds of the model.                                                    *)
(***************************************************************************)
\* timer-driven cycles explored
MaxCycles == 3
\* direct runOnce() calls explored
MaxManual == 1
\* timers and in-flight timer callbacks that may exist together
MaxChains == 3
\* longest capsule history handed to hasStabilityRegression
MaxHistory == 11
\* longest event log an engine cycle is explored on
MaxEvents == 8
\* longest event log a direct solidify() call is explored on
MaxDirectEvents == 2
\* most validation commands of a gene
MaxCommands == 2

(***************************************************************************)
(* PCECScheduler                                                           *)
(***************************************************************************)
NoTimer == 0

TimerHandles == 1..(MaxChains + 1)

\* setTimeout returns a new Timeout object: a handle no live reference names.
FreshTimer == CHOOSE h \in TimerHandles :
                /\ h \notin armed \cup {timer}
                /\ \A g \in TimerHandles : g \notin armed \cup {timer} => h <= g

SchedInit ==
    /\ running = FALSE
    /\ timer = NoTimer
    /\ armed = {}
    /\ inflight = 0
    /\ manual = 0
    /\ cycleCount = 0
    /\ timerCycles = 0
    /\ manualRuns = 0
    /\ lastOp = "new"

\* _scheduleNext(), given the value of this.running when it is called.
ScheduleNext(isRunning) ==
    IF ~isRunning
    THEN UNCHANGED <<timer, armed>>
    ELSE /\ timer' = FreshTimer
         /\ armed' = armed \cup {FreshTimer}

\* start(): ignored when already running, else sets the flag and schedules.
Start ==
    /\ running \/ Cardinality(armed) + inflight < MaxChains
    /\ IF running
       THEN UNCHANGED <<running, timer, armed>>
       ELSE /\ running' = TRUE
            /\ ScheduleNext(TRUE)
    /\ lastOp' = "start"
    /\ UNCHANGED <<inflight, manual, cycleCount, timerCycles, manualRuns>>
    /\ UNCHANGED NotSched

\* stop(): clears the flag; clearTimeout on this.timer (a no-op on a timeout
\* that has already fired) and forgets the handle.
Stop ==
    /\ running' = FALSE
    /\ IF timer # NoTimer
       THEN armed' = armed \ {timer} /\ timer' = NoTimer
       ELSE UNCHANGED <<timer, armed>>
    /\ lastOp' = "stop"
    /\ UNCHANGED <<inflight, manual, cycleCount, timerCycles, manualRuns>>
    /\ UNCHANGED NotSched

\* A timeout expires: its callback starts runOnce(), which counts the cycle
\* and calls the cycle callback, then suspends until that settles.
TimerFire(h) ==
    /\ h \in armed
    /\ timerCycles < MaxCycles
    /\ armed' = armed \ {h}
    /\ cycleCount' = cycleCount + 1
    /\ timerCycles' = timerCycles + 1
    /\ inflight' = inflight + 1
    /\ lastOp' = "fire"
    /\ UNCHANGED <<running, timer, manual, manualRuns>>
    /\ UNCHANGED NotSched

\* Settle without the try/catch around `await this.runOnce()`: a rejection
\* leaves the timer callback before _scheduleNext() is reached.
SettleNoCatch(outcome) ==
    /\ inflight > 0
    /\ inflight' = inflight - 1
    /\ IF outcome = "resolve" THEN ScheduleNext(running) ELSE UNCHANGED <<timer, armed>>
    /\ lastOp' = IF outcome = "resolve" THEN "settle_ok" ELSE "settle_err"
    /\ UNCHANGED <<running, manual, cycleCount, timerCycles, manualRuns>>
    /\ UNCHANGED NotSched

\* The cycle callback of a timer-driven run settles (resolves or rejects):
\* a rejection is caught and dropped, then _scheduleNext() runs.
Settle(outcome) ==
    /\ inflight > 0
    /\ inflight' = inflight - 1
    /\ ScheduleNext(running)
    /\ lastOp' = IF outcome = "resolve" THEN "settle_ok" ELSE "settle_err"
    /\ UNCHANGED <<running, manual, cycleCount, timerCycles, manualRuns>>
    /\ UNCHANGED NotSched

\* runOnce() called directly: counts the cycle and calls the callback.
RunOnce ==
    /\ manualRuns < MaxManual
    /\ cycleCount' = cycleCount + 1
    /\ manualRuns' = manualRuns + 1
    /\ manual' = manual + 1
    /\ lastOp' = "runOnce"
    /\ UNCHANGED <<running, timer, armed, inflight, timerCycles>>
    /\ UNCHANGED NotSched

\* The callback of a direct runOnce() settles: the result goes to the caller.
SettleManual ==
    /\ manual > 0
    /\ manual' = manual - 1
    /\ lastOp' = "settle_manual"
    /\ UNCHANGED <<running, timer, armed, inflight, cycleCount, timerCycles, manualRuns>>
    /\ UNCHANGED NotSched

Outcomes == {"resolve", "reject"}

SchedNext ==
    \/ Start
    \/ Stop
    \/ \E h \in TimerHandles : TimerFire(h)
    \/ \E o \in Outcomes : Settle(o)
    \/ RunOnce
    \/ SettleManual


(***************************************************************************)
(* Strings: a JavaScript string is the sequence of its characters, each a  *)
(* one-character string; a CJK character is written by its code point.     *)
(***************************************************************************)
Whitespace == {" ", "\t", "\n"}

UpperLetters == <<"A", "B", "C", "D", "E", "F", "G", "H", "I", "J", "K", "L", "M",
                  "N", "O", "P", "Q", "R", "S", "T", "U", "V", "W", "X", "Y", "Z">>
LowerLetters == <<"a", "b", "c", "d", "e", "f", "g", "h", "i", "j", "k", "l", "m",
                  "n", "o", "p", "q", "r", "s", "t", "u", "v", "w", "x", "y", "z">>

UpperSet == {UpperLetters[i] : i \in DOMAIN UpperLetters}
UpperToLower ==
    [c \in UpperSet |-> LowerLetters[CHOOSE i \in DOMAIN UpperLetters : UpperLetters[i] = c]]

LowerChar(c) == IF c \in UpperSet THEN UpperToLower[c] ELSE c

\* String.prototype.toLowerCase
ToLowerCase(str) == [i \in 1..Len(str) |-> LowerChar(str[i])]

\* String.prototype.trim
Trim(str) ==
    LET keep == {i \in 1..Len(str) : str[i] \notin Whitespace}
    IN  IF keep = {} THEN <<>>
        ELSE SubSeq(str, CHOOSE i \in keep : \A j \in keep : i <= j,
                         CHOOSE i \in keep : \A j \in keep : i >= j)

\* String.prototype.includes
Includes(str, term) ==
    \E i \in 0..(Len(str) - Len(term)) : SubSeq(str, i + 1, i + Len(term)) = term

\* Array.prototype.slice(start, end) with negative indexes counted from the end
JsSlice(arr, start, end) ==
    LET n == Len(arr)
        from == IF start < 0 THEN (IF n + start < 0 THEN 0 ELSE n + start)
                ELSE (IF start > n THEN n ELSE start)
        to == IF end < 0 THEN (IF n + end < 0 THEN 0 ELSE n + end)
              ELSE (IF end > n THEN n ELSE end)
    IN  SubSeq(arr, from + 1, to)

(***************************************************************************)
(* The ADL gate (adl/lock)                                                 *)
(***************************************************************************)
VAGUE_TERMS == <<
    <<"u67D0", "u79CD", "u7A0B", "u5EA6", "u4E0A">>,
    <<"u53EF", "u80FD", "u662F", "u4E00", "u79CD">>,
    <<"u4ECE", "u66F4", "u9AD8", "u7EF4", "u5EA6">>,
    <<"u672C", "u8D28", "u4E0A", "u662F">>,
    <<"e", "s", "s", "e", "n", "t", "i", "a", "l", "l", "y">>,
    <<"i", "n", " ", "s", "o", "m", "e", " ", "w", "a", "y">>,
    <<"t", "o", " ", "s", "o", "m", "e", " ", "e", "x", "t", "e", "n", "t">> >>

\* history entries hasStabilityRegression needs before it compares
MinHistory == 10
\* size of the recent and of the previous window
HistoryWindow == 5
\* blast.files above which an innovate mutation is too complex
ComplexityFileLimit == 20
\* shortest trimmed expected_effect that counts as verifiable
MinEffectLength == 10

\* A value is a JavaScript truthy value. Values: NullId stands for
\* undefined/null, any other string for itself.
NullId == "<null>"
Falsy(v) == v = NullId \/ v = ""

\* expected_effect: missing (undefined, null), a truthy value that is no
\* string, or a string.
EffectTruthy(e) == e.kind = "number" \/ (e.kind = "string" /\ Len(e.text) > 0)

\* obj[name] === true: the property is there and is the boolean true
StrictlyTrue(obj, name) == name \in DOMAIN obj /\ obj[name] = TRUE

\* successRate(items) of hasStabilityRegression as the fraction <<num, den>>
SuccessRate(items) ==
    IF Len(items) = 0 THEN <<1, 1>>
    ELSE <<Cardinality({i \in 1..Len(items) : StrictlyTrue(items[i], "success")}), Len(items)>>

\* recentRate < previousRate * 0.9, on fractions
RateBelowNineTenths(recentRate, previousRate) ==
    recentRate[1] * previousRate[2] * 10 < previousRate[1] * 9 * recentRate[2]

\* hasStabilityRegression comparing against the oldest entries instead of
\* the five that precede the recent window
HasStabilityRegressionOldest(capsuleHistory) ==
    IF Len(capsuleHistory) < MinHistory THEN FALSE
    ELSE RateBelowNineTenths(SuccessRate(JsSlice(capsuleHistory, 0 - HistoryWindow, Len(capsuleHistory))),
                             SuccessRate(JsSlice(capsuleHistory, 0, HistoryWindow)))

HasStabilityRegression(capsuleHistory) ==
    IF Len(capsuleHistory) < MinHistory THEN FALSE
    ELSE LET recent == JsSlice(capsuleHistory, 0 - HistoryWindow, Len(capsuleHistory))
             previous == JsSlice(capsuleHistory, 0 - 2 * HistoryWindow, 0 - HistoryWindow)
         IN  RateBelowNineTenths(SuccessRate(recent), SuccessRate(previous))

HasVagueTerm(e) ==
    /\ EffectTruthy(e)
    /\ e.kind = "string"
    /\ \E lower \in {ToLowerCase(e.text)} :
          \E term \in {ToLowerCase(VAGUE_TERMS[k]) : k \in DOMAIN VAGUE_TERMS} :
              Includes(lower, term)

Unverifiable(e) ==
    \/ ~EffectTruthy(e)
    \/ e.kind # "string"
    \/ Len(Trim(e.text)) < MinEffectLength

PushIf(cond, list, item) == IF cond THEN Append(list, item) ELSE list

\* checkADL that stops at the first violation it finds
CheckADLFirstOnly(mutation, blast, capsuleHistory) ==
    LET all == PushIf(Falsy(mutation.gene_id),
                 PushIf(HasStabilityRegression(capsuleHistory),
                   PushIf(HasVagueTerm(mutation.expected_effect),
                     PushIf(Unverifiable(mutation.expected_effect),
                       PushIf(mutation.category = "innovate" /\ blast.present
                                /\ blast.files > ComplexityFileLimit,
                              <<>>, "complexity_increase_without_justification"),
                       "unverifiable_evolution"),
                     "vague_concept_detected"),
                   "stability_regression"),
                 "no_rollback_path")
        v == IF all = <<>> THEN <<>> ELSE <<all[1]>>
    IN  [ok |-> v = <<>>, violations |-> v]

CheckADL(mutation, blast, capsuleHistory) ==
    LET v1 == PushIf(mutation.category = "innovate" /\ blast.present
                       /\ blast.files > ComplexityFileLimit,
                     <<>>, "complexity_increase_without_justification")
        v2 == PushIf(Unverifiable(mutation.expected_effect), v1, "unverifiable_evolution")
        v3 == PushIf(HasVagueTerm(mutation.expected_effect), v2, "vague_concept_detected")
        v4 == PushIf(HasStabilityRegression(capsuleHistory), v3, "stability_regression")
        v5 == PushIf(Falsy(mutation.gene_id), v4, "no_rollback_path")
    IN  [ok |-> Len(v5) = 0, violations |-> v5]

(***************************************************************************)
(* checkADL and hasStabilityRegression called on sampled arguments         *)
(***************************************************************************)
Text(t) == [kind |-> "string", text |-> t]
Fill(n) == [i \in 1..n |-> "x"]
Rep(n, entry) == [i \in 1..n |-> entry]

EffectBodies ==
    {Fill(n) : n \in {0, MinEffectLength - 1, MinEffectLength}}
    \cup {VAGUE_TERMS[k] : k \in DOMAIN VAGUE_TERMS}
    \cup {Fill(6) \o VAGUE_TERMS[k] \o Fill(1) : k \in DOMAIN VAGUE_TERMS}
    \cup {Fill(6) \o SubSeq(VAGUE_TERMS[k], 1, Len(VAGUE_TERMS[k]) - 1) : k \in DOMAIN VAGUE_TERMS}
    \cup { <<"E", "s", "s", "e", "n", "t", "i", "a", "l", "l", "y">>,
           <<"I", "N", " ", "S", "O", "M", "E", " ", "W", "A", "Y">>,
           Fill(4) \o <<" ">> \o Fill(MinEffectLength - 5) }

EffectPads == {<<>>, <<" ">>, <<"\t", "\n">>}

EffectSamples ==
    {[kind |-> "missing", text |-> <<>>], [kind |-> "number", text |-> <<>>]}
    \cup {Text(l \o b \o r) : l \in EffectPads, b \in EffectBodies, r \in EffectPads}

AdlCategories == {"repair", "optimize", "innovate"}

BlastSamples ==
    {[present |-> FALSE, files |-> 0, lines |-> 0]}
    \cup {[present |-> TRUE, files |-> f, lines |-> 0] :
            f \in {0, ComplexityFileLimit, ComplexityFileLimit + 1}}

Succeeded == [success |-> TRUE]
Failed == [success |-> FALSE]
\* an entry that carries no success property
NoVerdict == [summary |-> "x"]

AdlHistories ==
    { <<>>,
      Rep(HistoryWindow, Succeeded) \o Rep(HistoryWindow, Failed),
      Rep(HistoryWindow, Failed) \o Rep(HistoryWindow, Succeeded),
      Rep(HistoryWindow, Succeeded) \o Rep(HistoryWindow - 1, Failed),
      Rep(MinHistory, Succeeded) }

BoolHistories ==
    UNION {[1..n -> {Succeeded, Failed}] : n \in 0..MaxHistory}

\* the same histories with every failure recorded as an entry without verdict
HsrHistories ==
    BoolHistories
    \cup {[i \in 1..Len(h) |-> IF h[i] = Failed THEN NoVerdict ELSE h[i]] : h \in BoolHistories}

NotCalled == [called |-> FALSE, ok |-> FALSE, violations |-> <<>>]
HsrNotCalled == [called |-> FALSE, value |-> FALSE]

AdlIdle ==
    /\ adlMutation = [category |-> "repair", expected_effect |-> Text(<<>>), gene_id |-> NullId]
    /\ adlBlast = [present |-> FALSE, files |-> 0, lines |-> 0]
    /\ adlHistory = <<>>
    /\ adlResult = NotCalled
    /\ hsrResult = HsrNotCalled

AdlInit ==
    /\ adlMutation \in [category : AdlCategories, expected_effect : EffectSamples,
                        gene_id : {NullId, "", "gene_a"}]
    /\ adlBlast \in BlastSamples
    /\ adlHistory \in AdlHistories
    /\ adlResult = NotCalled
    /\ hsrResult = HsrNotCalled

HsrInit ==
    /\ adlMutation = [category |-> "repair", expected_effect |-> Text(<<>>), gene_id |-> NullId]
    /\ adlBlast = [present |-> FALSE, files |-> 0, lines |-> 0]
    /\ adlHistory \in HsrHistories
    /\ adlResult = NotCalled
    /\ hsrResult = HsrNotCalled

CallCheckADL ==
    /\ ~adlResult.called
    /\ adlResult' = [called |-> TRUE,
                     ok |-> CheckADL(adlMutation, adlBlast, adlHistory).ok,
                     violations |-> CheckADL(adlMutation, adlBlast, adlHistory).violations]
    /\ UNCHANGED <<adlMutation, adlBlast, adlHistory, hsrResult>>
    /\ UNCHANGED NotAdl

CallHasStabilityRegression ==
    /\ ~hsrResult.called
    /\ hsrResult' = [called |-> TRUE, value |-> HasStabilityRegression(adlHistory)]
    /\ UNCHANGED <<adlMutation, adlBlast, adlHistory, adlResult>>
    /\ UNCHANGED NotAdl


(***************************************************************************)
(* The asset store and the solidification pipeline                         *)
(***************************************************************************)
\* createEvent: payload, gene_id || null
CreateEvent(eventType, payload, geneId) ==
    [type |-> "EvolutionEvent", event_type |-> eventType, payload |-> payload,
     gene_id |-> IF Falsy(geneId) THEN NullId ELSE geneId]

\* createCapsule: throws without gene_id or summary
CreateCapsule(geneId, category, summary, blast) ==
    IF Falsy(geneId) \/ ~EffectTruthy(summary)
    THEN [thrown |-> TRUE]
    ELSE [thrown |-> FALSE,
          capsule |-> [type |-> "Capsule", gene_id |-> geneId,
                       mutation_category |-> category,
                       metrics |-> [blast_files |-> blast.files, blast_lines |-> blast.lines,
                                    validation_passed |-> TRUE]]]

\* computeBlast(changedFiles, lineStats)
ComputeBlast(changedFiles, lineStats) ==
    [present |-> TRUE, files |-> Len(changedFiles),
     lines |-> lineStats.additions + lineStats.deletions]

\* runValidations: every command is run; cmdOk[i] tells whether execSync of
\* command i returned (TRUE) or threw (FALSE)
RunValidations(commands, cmdOk) ==
    [passed |-> \A i \in DOMAIN commands : cmdOk[i],
     results |-> [i \in DOMAIN commands |-> [command |-> commands[i], success |-> cmdOk[i]]]]

\* the rollback step that forgets the dry-run test
RollbackPartAlways(params, trigger) ==
    [appended |-> <<CreateEvent("rollback", [trigger |-> trigger], params.gene.id)>>,
     calls |-> <<"rollback", "appendEvent:rollback">>]

\* `if (!params.dryRun) { rollback(...); appendEvent(rollback event) }`
RollbackPart(params, trigger) ==
    IF params.dryRun THEN [appended |-> <<>>, calls |-> <<>>]
    ELSE [appended |-> <<CreateEvent("rollback", [trigger |-> trigger], params.gene.id)>>,
          calls |-> <<"rollback", "appendEvent:rollback">>]

\* the branch order with the dry-run return left out
SolidifyBranchNoDryRun(passed, adlOk, dryRun, capsuleThrown) ==
    IF ~passed THEN "validation_failed"
    ELSE IF ~adlOk THEN "adl_violation"
    ELSE IF capsuleThrown THEN "threw"
    ELSE "success"

\* the branch solidify takes: validation, then the gate, then dry run
SolidifyBranch(passed, adlOk, dryRun, capsuleThrown) ==
    IF ~passed THEN "validation_failed"
    ELSE IF ~adlOk THEN "adl_violation"
    ELSE IF dryRun THEN "dry_run"
    ELSE IF capsuleThrown THEN "threw"
    ELSE "success"

\* solidify(params): what it returns, the events it appends, the capsule
\* store it leaves and the calls it makes, given the capsule store it finds
Solidify(params, cmdOk, store) ==
    LET blast == ComputeBlast(params.changedFiles, params.lineStats)
        validation == RunValidations(params.gene.validation, cmdOk)
        adl == CheckADL(params.mutation, blast, store)
        made == CreateCapsule(params.gene.id, params.mutation.category,
                              params.mutation.expected_effect, blast)
        branch == SolidifyBranch(validation.passed, adl.ok, params.dryRun, made.thrown)
        base == [outcome |-> branch, success |-> branch \in {"dry_run", "success"},
                 thrown |-> branch = "threw", validation |-> validation,
                 adlChecked |-> branch # "validation_failed",
                 adl |-> IF branch = "validation_failed"
                         THEN [ok |-> FALSE, violations |-> <<>>] ELSE adl,
                 capsuleMade |-> branch = "success",
                 capsules |-> IF branch = "success" THEN Append(store, made.capsule) ELSE store]
        effects ==
            CASE branch = "validation_failed" ->
                   [appended |-> <<CreateEvent("solidify_failed",
                                               [reason |-> "validation_failed"], params.gene.id)>>
                                 \o RollbackPart(params, "validation_failed").appended,
                    calls |-> <<"runValidations", "appendEvent:solidify_failed">>
                              \o RollbackPart(params, "validation_failed").calls]
              [] branch = "adl_violation" ->
                   [appended |-> <<CreateEvent("adl_violation",
                                               [violations |-> adl.violations], params.gene.id)>>
                                 \o RollbackPart(params, "adl_violation").appended,
                    calls |-> <<"runValidations", "loadCapsules", "checkADL",
                                "appendEvent:adl_violation">>
                              \o RollbackPart(params, "adl_violation").calls]
              [] branch = "dry_run" ->
                   [appended |-> <<>>,
                    calls |-> <<"runValidations", "loadCapsules", "checkADL">>]
              [] branch = "threw" ->
                   [appended |-> <<>>,
                    calls |-> <<"runValidations", "loadCapsules", "checkADL", "createCapsule">>]
              [] OTHER ->
                   [appended |-> <<CreateEvent("solidify_success", [blast |-> blast],
                                               params.gene.id)>>,
                    calls |-> <<"runValidations", "loadCapsules", "checkADL", "createCapsule",
                                "addCapsule", "appendEvent:solidify_success">>]
    IN  [outcome |-> base.outcome, success |-> base.success, thrown |-> base.thrown,
         validation |-> base.validation, adlChecked |-> base.adlChecked, adl |-> base.adl,
         capsuleMade |-> base.capsuleMade, capsules |-> base.capsules,
         appended |-> effects.appended, calls |-> effects.calls]

(***************************************************************************)
(* Signals, strategies, personality and gene selection                     *)
(***************************************************************************)
\* A signal string, split at its first colon: "errsig:timeout" has head
\* "errsig" and tail "timeout"; a signal without colon has colon = FALSE.
Sig(name) == [head |-> name, colon |-> FALSE, tail |-> ""]
SigOf(head, tail) == [head |-> head, colon |-> TRUE, tail |-> tail]

\* s.replace(/:.*$/, ':') !== s
HasPrefixForm(s) == s.colon /\ s.tail # ""
\* sig.startsWith(prefix), prefix being the head of s and its colon
StartsWithPrefix(sig, s) == sig.colon /\ sig.head = s.head

RECURSIVE SumTo(_, _)
SumTo(f, n) == IF n = 0 THEN 0 ELSE f[n] + SumTo(f, n - 1)

\* matchScore(gene, signals) as the fraction <<twice matched, twice length>>
MatchScore(gene, signals) ==
    IF Len(gene.signals_match) = 0 THEN <<0, 1>>
    ELSE LET credit == [i \in 1..Len(gene.signals_match) |->
                 LET s == gene.signals_match[i]
                 IN  IF \E k \in DOMAIN signals : signals[k] = s THEN 2
                     ELSE IF HasPrefixForm(s)
                             /\ \E k \in DOMAIN signals : StartsWithPrefix(signals[k], s)
                          THEN 1 ELSE 0]
         IN  <<SumTo(credit, Len(gene.signals_match)), 2 * Len(gene.signals_match)>>

(***************************************************************************)
(* JavaScript numbers are IEEE 754 doubles.  A positive double is held as  *)
(* [zero |-> FALSE, e, m]: m is its significand of 53 bits, the most       *)
(* significant first and 1, and its value is 0.m (binary) times 2^e.       *)
(* Division and addition round the exact result to the nearest double,     *)
(* ties to the even significand.                                           *)
(***************************************************************************)
SignificandBits == 53

Zero == [zero |-> TRUE, e |-> 0, m |-> <<>>]

\* bits + 1, from position i leftwards; one bit longer when every bit was 1
RECURSIVE Increment(_, _)
Increment(bits, i) ==
    IF i = 0 THEN <<1>> \o bits
    ELSE IF bits[i] = 0 THEN [bits EXCEPT ![i] = 1]
    ELSE Increment([bits EXCEPT ![i] = 0], i - 1)

\* the double nearest to 0.bits * 2^e, where bits starts with 1, has at least
\* 53 bits, and `sticky` tells that non-zero bits follow those given
RoundToDouble(e, bits, sticky) ==
    LET keep == SubSeq(bits, 1, SignificandBits)
        half == Len(bits) > SignificandBits /\ bits[SignificandBits + 1] = 1
        more == sticky \/ \E i \in (SignificandBits + 2)..Len(bits) : bits[i] = 1
    IN  IF ~(half /\ (more \/ keep[SignificandBits] = 1))
        THEN [zero |-> FALSE, e |-> e, m |-> keep]
        ELSE IF Len(Increment(keep, SignificandBits)) > SignificandBits
        THEN [zero |-> FALSE, e |-> e + 1,
              m |-> SubSeq(Increment(keep, SignificandBits), 1, SignificandBits)]
        ELSE [zero |-> FALSE, e |-> e, m |-> Increment(keep, SignificandBits)]

\* n/d as a fraction in [1/2, 1) times 2^e
RECURSIVE Normalised(_, _, _)
Normalised(n, d, e) ==
    IF n >= d THEN Normalised(n, 2 * d, e + 1)
    ELSE IF 2 * n < d THEN Normalised(2 * n, d, e - 1)
    ELSE [n |-> n, d |-> d, e |-> e]

\* the next `count` bits of the binary expansion of r/d, and what remains
RECURSIVE QuotientBits(_, _, _, _)
QuotientBits(r, d, count, bits) ==
    IF count = 0 THEN [bits |-> bits, rem |-> r]
    ELSE QuotientBits(IF 2 * r >= d THEN 2 * r - d ELSE 2 * r, d, count - 1,
                      Append(bits, IF 2 * r >= d THEN 1 ELSE 0))

\* n / d for integers n >= 0 and d > 0
Divide(n, d) ==
    IF n = 0 THEN Zero
    ELSE LET s == Normalised(n, d, 0)
             q == QuotientBits(s.n, s.d, SignificandBits + 1, <<>>)
         IN  RoundToDouble(s.e, q.bits, q.rem # 0)

\* x + y of two bit strings of one length, from position i leftwards
RECURSIVE AddBits(_, _, _, _, _)
AddBits(x, y, i, carry, sum) ==
    IF i = 0 THEN (IF carry = 1 THEN <<1>> \o sum ELSE sum)
    ELSE AddBits(x, y, i - 1, (x[i] + y[i] + carry) \div 2,
                 <<(x[i] + y[i] + carry) % 2>> \o sum)

Zeros(n) == [i \in 1..n |-> 0]

\* a + b
Plus(a, b) ==
    IF a.zero THEN b
    ELSE IF b.zero THEN a
    ELSE LET hi == IF a.e >= b.e THEN a ELSE b
             lo == IF a.e >= b.e THEN b ELSE a
             sum == AddBits(hi.m \o Zeros(hi.e - lo.e), Zeros(hi.e - lo.e) \o lo.m,
                            SignificandBits + hi.e - lo.e, 0, <<>>)
         IN  IF Len(sum) > SignificandBits + hi.e - lo.e
             THEN RoundToDouble(hi.e + 1, sum, FALSE)
             ELSE RoundToDouble(hi.e, sum, FALSE)

\* a > b
Greater(a, b) ==
    IF a.zero THEN FALSE
    ELSE IF b.zero THEN TRUE
    ELSE \/ a.e > b.e
         \/ /\ a.e = b.e
            /\ \E i \in 1..SignificandBits :
                  /\ a.m[i] > b.m[i]
                  /\ \A j \in 1..(i - 1) : a.m[j] = b.m[j]

\* the default minScore of selectGene, in tenths
MinScoreTenths == 3

\* the score selectGene sorts by: matchScore, plus 0.1 in the preferred category
SelectScore(gene, signals, preferCategory) ==
    IF ~Falsy(preferCategory) /\ gene.category = preferCategory
    THEN Plus(Divide(MatchScore(gene, signals)[1], MatchScore(gene, signals)[2]),
              Divide(1, 10))
    ELSE Divide(MatchScore(gene, signals)[1], MatchScore(gene, signals)[2])

\* selectGene: filter(score >= minScore), sort((a, b) => b.score - a.score),
\* take the first; the sort is stable
FirstOfBest(score, minScore, store) ==
    LET kept == {i \in DOMAIN store : ~Greater(minScore, score[i])}
    IN  IF kept = {} THEN [found |-> FALSE]
        ELSE [found |-> TRUE,
              gene |-> store[CHOOSE i \in kept : \A j \in kept :
                                 /\ ~Greater(score[j], score[i])
                                 /\ (~Greater(score[i], score[j]) => i <= j)]]

\* selectGene(signals, {preferCategory, minScore}) over the gene store, with
\* minScore given in tenths
SelectGeneWith(signals, preferCategory, minScoreTenths, store) ==
    IF Len(signals) = 0 \/ Len(store) = 0 THEN [found |-> FALSE]
    ELSE CHOOSE r \in {FirstOfBest(score, Divide(minScoreTenths, 10), store) :
                          score \in {[i \in DOMAIN store |->
                                        SelectScore(store[i], signals, preferCategory)]}} :
            TRUE

\* rankGenes: sort((a, b) => b.score - a.score) of the items taken in store
\* order; the sort is stable, so an item goes behind those that score as much
RECURSIVE SortedByScore(_, _)
SortedByScore(items, n) ==
    IF n = 0 THEN <<>>
    ELSE CHOOSE r \in {SelectSeq(sorted, LAMBDA x : ~Greater(items[n].score, x.score))
                         \o <<items[n]>>
                         \o SelectSeq(sorted, LAMBDA x : Greater(items[n].score, x.score)) :
                           sorted \in {SortedByScore(items, n - 1)}} : TRUE

RankGenesAll(signals, store) ==
    IF Len(signals) = 0 \/ Len(store) = 0 THEN <<>>
    ELSE CHOOSE r \in {SortedByScore(scored, Len(scored)) :
                          scored \in {[i \in DOMAIN store |->
                                         [gene |-> store[i],
                                          score |-> Divide(MatchScore(store[i], signals)[1],
                                                           MatchScore(store[i], signals)[2])]]}} :
            TRUE

\* rankGenes(signals) over the gene store
RankGenes(signals, store) ==
    IF Len(signals) = 0 \/ Len(store) = 0 THEN <<>>
    ELSE CHOOSE r \in {SortedByScore(kept, Len(kept)) :
                          kept \in {SelectSeq([i \in DOMAIN store |->
                                                 [gene |-> store[i],
                                                  score |-> Divide(MatchScore(store[i], signals)[1],
                                                                   MatchScore(store[i], signals)[2])]],
                                              LAMBDA item : Greater(item.score, Zero))}} :
            TRUE

\* selectGene(signals, {preferCategory}) over the gene store
SelectGene(signals, preferCategory, store) ==
    SelectGeneWith(signals, preferCategory, MinScoreTenths, store)

STRATEGIES ==
    ("balanced" :> [innovate |-> 50, optimize |-> 30, repair |-> 20])
    @@ ("innovate" :> [innovate |-> 80, optimize |-> 15, repair |-> 5])
    @@ ("harden" :> [innovate |-> 20, optimize |-> 40, repair |-> 40])
    @@ ("repair-only" :> [innovate |-> 0, optimize |-> 20, repair |-> 80])
    @@ ("early-stabilize" :> [innovate |-> 10, optimize |-> 30, repair |-> 60])
    @@ ("steady-state" :> [innovate |-> 40, optimize |-> 40, repair |-> 20])

\* events counted before autoDetectStrategy leaves early-stabilize
EarlyCycles == 5
\* events autoDetectStrategy looks back over for the failure ratio
RatioWindow == 10

\* e[name] is a truthy property of the record e
Truthy(e, name) == name \in DOMAIN e /\ e[name] \notin {FALSE, NullId, "", 0}

\* autoDetectStrategy(events)
AutoDetectStrategy(evts) ==
    LET cycleEvents == {i \in DOMAIN evts : evts[i].type = "cycle_complete" \/ "cycle" \in DOMAIN evts[i]}
        totalCycles == IF Cardinality(cycleEvents) # 0 THEN Cardinality(cycleEvents) ELSE Len(evts)
        recentEvents == JsSlice(evts, 0 - EarlyCycles, Len(evts))
        hasNoOutput == \A i \in DOMAIN recentEvents :
                          \/ ~Truthy(recentEvents[i], "mutation_applied")
                          \/ ("result" \in DOMAIN recentEvents[i]
                                /\ recentEvents[i].result \in {"no_change", "skipped"})
        recentWindow == JsSlice(evts, 0 - RatioWindow, Len(evts))
        attempts == {i \in DOMAIN recentWindow :
                        "solidify_failed" \in DOMAIN recentWindow[i]
                        \/ "solidify_success" \in DOMAIN recentWindow[i]}
        failed == {i \in attempts : Truthy(recentWindow[i], "solidify_failed")}
    IN  IF totalCycles < EarlyCycles THEN "early-stabilize"
        ELSE IF hasNoOutput THEN "innovate"
        ELSE IF attempts # {} /\ 10 * Cardinality(failed) > 4 * Cardinality(attempts)
             THEN "repair-only"
        ELSE IF attempts # {} /\ 10 * Cardinality(failed) > 2 * Cardinality(attempts)
             THEN "harden"
        ELSE "balanced"

\* mutations checkStrategyAllowance needs before it compares ratios
QuotaWindow == 10
\* tolerated excess over the target ratio, in percent
QuotaTolerance == 20

\* the allowance test without the comparison of ratios
CheckStrategyAllowanceNoQuota(category, strategyWeights, recentMutations) ==
    IF category \notin DOMAIN strategyWeights THEN [allowed |-> FALSE, reason |-> "unknown"]
    ELSE IF strategyWeights[category] = 0 THEN [allowed |-> FALSE, reason |-> "forbidden"]
    ELSE [allowed |-> TRUE, reason |-> "ok"]

\* the allowance test without the zero-weight refusal
CheckStrategyAllowanceNoZero(category, strategyWeights, recentMutations) ==
    IF category \notin DOMAIN strategyWeights THEN [allowed |-> FALSE, reason |-> "unknown"]
    ELSE IF Len(recentMutations) >= QuotaWindow
            /\ LET last == JsSlice(recentMutations, 0 - QuotaWindow, Len(recentMutations))
                   count == Cardinality({i \in DOMAIN last : last[i].category = category})
               IN  Greater(Divide(count, QuotaWindow),
                           Plus(Divide(strategyWeights[category], 100),
                                Divide(QuotaTolerance, 100)))
         THEN [allowed |-> FALSE, reason |-> "ratio"]
    ELSE [allowed |-> TRUE, reason |-> "ok"]

\* checkStrategyAllowance(category, strategyWeights, recentMutations)
CheckStrategyAllowance(category, strategyWeights, recentMutations) ==
    IF category \notin DOMAIN strategyWeights THEN [allowed |-> FALSE, reason |-> "unknown"]
    ELSE IF strategyWeights[category] = 0 THEN [allowed |-> FALSE, reason |-> "forbidden"]
    ELSE IF Len(recentMutations) >= QuotaWindow
            /\ LET last == JsSlice(recentMutations, 0 - QuotaWindow, Len(recentMutations))
                   count == Cardinality({i \in DOMAIN last : last[i].category = category})
               IN  Greater(Divide(count, QuotaWindow),
                           Plus(Divide(strategyWeights[category], 100),
                                Divide(QuotaTolerance, 100)))
         THEN [allowed |-> FALSE, reason |-> "ratio"]
    ELSE [allowed |-> TRUE, reason |-> "ok"]

\* the V-score below which a capability is not worth evolving
EVOLUTION_THRESHOLD == 40
\* v_score: null
NullScore == 0 - 1
IsWorthEvolving(score) == score >= EVOLUTION_THRESHOLD

\* createPersonality(): confidence and risk_appetite in hundredths
CreatePersonality == [mood |-> "curious", confidence |-> 50, risk_appetite |-> 50]

Min(a, b) == IF a < b THEN a ELSE b
Max(a, b) == IF a > b THEN a ELSE b

\* updatePersonality(personality, {success, category}), no streak given
UpdatePersonality(p, success, category) ==
    IF success
    THEN [mood |-> IF category = "innovate" THEN "confident" ELSE "focused",
          confidence |-> Min(100, p.confidence + 5),
          risk_appetite |-> IF category = "innovate" THEN Min(100, p.risk_appetite + 3)
                            ELSE p.risk_appetite]
    ELSE [mood |-> "cautious",
          confidence |-> Max(0, p.confidence - 8),
          risk_appetite |-> Max(0, p.risk_appetite - 5)]

\* suggestFromPersonality(personality).preferCategory
PreferCategory(p) ==
    IF p.mood = "restless" /\ p.risk_appetite > 60 THEN "innovate"
    ELSE IF p.mood = "cautious" /\ p.confidence < 30 THEN "repair"
    ELSE IF p.mood = "confident" /\ p.risk_appetite > 70 THEN "innovate"
    ELSE NullId

(***************************************************************************)
(* The evolution engine (core/engine)                                      *)
(***************************************************************************)
\* events _extractSignals looks back over
SignalWindow == 20
\* failures, and rollbacks, in the window that raise a signal
RepeatThreshold == 3

CountType(evts, eventType) == Cardinality({i \in DOMAIN evts : evts[i].event_type = eventType})

\* _extractSignals(): from the session logs when a sessions directory is
\* configured, else inferred from the event log
ExtractSignals(eng, evts) ==
    IF eng.sessions.configured THEN eng.sessions.signals
    ELSE IF Len(evts) = 0 THEN <<>>
    ELSE LET recent == JsSlice(evts, 0 - SignalWindow, Len(evts))
             s1 == PushIf(CountType(recent, "solidify_failed") >= RepeatThreshold,
                          <<>>, Sig("recurring_error"))
             s2 == PushIf(CountType(recent, "rollback") >= RepeatThreshold,
                          s1, Sig("repair_loop_detected"))
             s3 == PushIf(\A i \in DOMAIN recent : recent[i].event_type = "solidify_success",
                          s2, Sig("stable_success_plateau"))
         IN  PushIf(Len(recent) = 0
                      \/ \A i \in DOMAIN recent : recent[i].event_type = "signal_extracted",
                    s3, Sig("evolution_stagnation"))

\* Array.prototype.join
RECURSIVE Join(_, _)
Join(parts, sep) ==
    IF Len(parts) = 0 THEN <<>>
    ELSE IF Len(parts) = 1 THEN parts[1]
    ELSE parts[1] \o sep \o Join(Tail(parts), sep)

RISK_MAP == [repair |-> "low", optimize |-> "low-medium", innovate |-> "medium"]

\* blast.files above which assessRisk warns and escalates
RiskFileLimit == 10
\* blast.lines above which assessRisk warns
RiskLineLimit == 500
\* blast.files above which assessRisk warns and escalates for innovate
InnovateFileLimit == 5

\* assessRisk(mutation, blast)
AssessRisk(mutation, blast) ==
    LET w1 == PushIf(blast.files > RiskFileLimit, <<>>, "High blast radius")
        r1 == IF blast.files > RiskFileLimit THEN "medium" ELSE RISK_MAP[mutation.category]
        w2 == PushIf(blast.lines > RiskLineLimit, w1, "Large change")
        w3 == PushIf(mutation.category = "innovate" /\ blast.files > InnovateFileLimit, w2,
                     "Innovation with wide blast radius")
        r3 == IF mutation.category = "innovate" /\ blast.files > InnovateFileLimit
              THEN "medium" ELSE r1
    IN  [risk |-> r3, warnings |-> w3]

\* createMutation: throws on an unknown category, an empty target or an
\* empty expected_effect
CreateMutation(category, target, expectedEffect, geneId) ==
    IF category \notin DOMAIN RISK_MAP \/ Len(target) = 0 \/ Len(expectedEffect) = 0
    THEN [thrown |-> TRUE]
    ELSE [thrown |-> FALSE,
          mutation |-> [category |-> category, risk_level |-> RISK_MAP[category],
                        target |-> target, expected_effect |-> Text(expectedEffect),
                        gene_id |-> IF Falsy(geneId) THEN NullId ELSE geneId]]

\* the parameters runCycle hands to solidify
CycleParams(gene, mutation, eng) ==
    [gene |-> gene, mutation |-> mutation, changedFiles |-> <<>>,
     lineStats |-> [additions |-> 0, deletions |-> 0], dryRun |-> eng.dryRun]

NoSolidify == [called |-> FALSE]

\* what a caller sees of one solidify(params) call
SolidView(params, r) ==
    [called |-> TRUE, gene |-> params.gene.id, mutation |-> params.mutation,
     blast |-> ComputeBlast(params.changedFiles, params.lineStats),
     dryRun |-> params.dryRun, results |-> r.validation.results,
     outcome |-> r.outcome, success |-> r.success, adlChecked |-> r.adlChecked,
     adl |-> r.adl]

\* the calls of a runCycle() that gets as far as solidify, in order
CycleCalls ==
    <<"extractSignals", "appendEvent:signal_extracted", "getStrategy", "selectGene",
      "appendEvent:gene_selected", "checkStrategyAllowance", "createMutation",
      "appendEvent:mutation_applied", "solidify">>

\* the payloads of the last mutation_applied events, as runCycle collects them
RecentMutations(evts) ==
    LET applied == SelectSeq(evts, LAMBDA e : e.event_type = "mutation_applied")
        last == JsSlice(applied, 0 - QuotaWindow, Len(applied))
    IN  [i \in DOMAIN last |-> last[i].payload]

\* the mutation proposal runCycle builds for the selected gene
CycleMutation(gene) ==
    CreateMutation(gene.category, Join(gene.strategy, <<" ", "u2192", " ">>),
                   <<"E", "x", "e", "c", "u", "t", "e", " ", "g", "e", "n", "e", " ">>
                     \o gene.idText \o <<":", " ">>
                     \o Join(JsSlice(gene.strategy, 0, 2), <<",", " ">>),
                   gene.id)

(***************************************************************************)
(* The store contents, engines and calls explored                          *)
(***************************************************************************)
\* engine cycles explored per engine instance
MaxEngineCycles == 2

GeneRepair ==
    [id |-> "gene_r", idText |-> <<"g", "e", "n", "e", "_", "r">>, category |-> "repair",
     signals_match |-> <<Sig("recurring_error"), SigOf("errsig", "*")>>,
     strategy |-> << <<"f", "i", "x">> >>, validation |-> <<"npm test">>,
     capability_node_id |-> NullId, v_score |-> NullScore]

GeneInnovate ==
    [id |-> "gene_i", idText |-> <<"g", "e", "n", "e", "_", "i">>, category |-> "innovate",
     signals_match |-> <<Sig("evolution_stagnation")>>,
     strategy |-> << <<"a", "d", "d">>, <<"t", "e", "s", "t">>, <<"s", "h", "i", "p">> >>,
     validation |-> <<>>, capability_node_id |-> NullId, v_score |-> NullScore]

\* its first strategy step is one of the vague terms
GeneVague ==
    [id |-> "gene_v", idText |-> <<"g", "e", "n", "e", "_", "v">>, category |-> "optimize",
     signals_match |-> <<SigOf("errsig", "*")>>,
     strategy |-> <<VAGUE_TERMS[5]>>, validation |-> <<"npm run lint", "npm test">>,
     capability_node_id |-> NullId, v_score |-> NullScore]

\* bound to a capability whose V-score is below the threshold
GeneCap ==
    [id |-> "gene_c", idText |-> <<"g", "e", "n", "e", "_", "c">>, category |-> "innovate",
     signals_match |-> <<Sig("evolution_stagnation"), Sig("stable_success_plateau")>>,
     strategy |-> << <<"t", "u", "n", "e">> >>, validation |-> <<>>,
     capability_node_id |-> "cap_x", v_score |-> EVOLUTION_THRESHOLD - 10]

GeneSamples == {GeneRepair, GeneInnovate, GeneVague, GeneCap}

GeneStores == { <<GeneRepair, GeneInnovate>>, <<GeneVague, GeneCap>> }

PassedCapsule ==
    CreateCapsule("gene_r", "repair", Text(Fill(MinEffectLength)),
                  [present |-> TRUE, files |-> 1, lines |-> 2]).capsule
FailedCapsule == [PassedCapsule EXCEPT !.metrics.validation_passed = FALSE]

CapsuleStores ==
    { <<>>,
      Rep(HistoryWindow, PassedCapsule) \o Rep(HistoryWindow, FailedCapsule),
      Rep(HistoryWindow, PassedCapsule) \o Rep(HistoryWindow - 1, FailedCapsule) }

NoSessions == [configured |-> FALSE, signals |-> <<>>]
SessionSamples ==
    { NoSessions,
      [configured |-> TRUE, signals |-> <<>>],
      [configured |-> TRUE, signals |-> <<SigOf("errsig", "timeout")>>] }

\* new EvolutionEngine(options)
NewEngineOf(strategy, dryRun, sessions) ==
    [strategy |-> strategy, dryRun |-> dryRun, sessions |-> sessions,
     personality |-> CreatePersonality, cycleCount |-> 0]

StrategyOptions == {NullId, "repair-only", "no-such-strategy"}

\* the mutation and changed files of a direct solidify() call: a sound one,
\* one with a short expected_effect, one that breaks every rule it can
SolidifyInputs ==
    { [effect |-> Text(Fill(MinEffectLength)), linked |-> TRUE, files |-> <<"f">>],
      [effect |-> Text(Fill(MinEffectLength - 1)), linked |-> TRUE, files |-> <<>>],
      [effect |-> Text(VAGUE_TERMS[5]), linked |-> FALSE,
       files |-> Rep(ComplexityFileLimit + 1, "f")] }

\* solidify({gene, mutation, changedFiles, lineStats, dryRun}) of such a call
DirectParams(gene, input, dryRun) ==
    [gene |-> gene,
     mutation |-> [category |-> gene.category, expected_effect |-> input.effect,
                   gene_id |-> IF input.linked THEN gene.id ELSE NullId],
     changedFiles |-> input.files,
     lineStats |-> [additions |-> 1, deletions |-> 1],
     dryRun |-> dryRun]

\* event logs earlier direct calls leave: none, three dry-run solidify calls
\* whose validation failed, one successful solidify
EventLogs ==
    { <<>>,
      Solidify(DirectParams(GeneRepair, CHOOSE i \in SolidifyInputs : i.files = <<"f">>, TRUE),
               [c \in 1..MaxCommands |-> FALSE], <<>>).appended
        \o Solidify(DirectParams(GeneRepair, CHOOSE i \in SolidifyInputs : i.files = <<"f">>, TRUE),
                    [c \in 1..MaxCommands |-> FALSE], <<>>).appended
        \o Solidify(DirectParams(GeneRepair, CHOOSE i \in SolidifyInputs : i.files = <<"f">>, TRUE),
                    [c \in 1..MaxCommands |-> FALSE], <<>>).appended,
      Solidify(DirectParams(GeneInnovate, CHOOSE i \in SolidifyInputs : i.files = <<"f">>, FALSE),
               [c \in 1..MaxCommands |-> TRUE], <<>>).appended }

NoResult == [op |-> "none", reason |-> "", thrown |-> FALSE, solid |-> NoSolidify]

PipeIdle ==
    /\ genes = <<>>
    /\ capsules = <<>>
    /\ events = <<>>
    /\ engine = NewEngineOf(NullId, FALSE, NoSessions)
    /\ res = NoResult
    /\ trace = <<>>

\* the stores before direct solidify() calls
SolidInit ==
    /\ genes \in GeneStores
    /\ capsules \in CapsuleStores
    /\ events = <<>>
    /\ engine = NewEngineOf(NullId, FALSE, NoSessions)
    /\ res = NoResult
    /\ trace = <<>>

\* the stores before engines run their cycles
PipeInit ==
    /\ genes \in GeneStores
    /\ capsules \in CapsuleStores
    /\ events \in EventLogs
    /\ engine = NewEngineOf(NullId, FALSE, NoSessions)
    /\ res = NoResult
    /\ trace = <<>>

\* a program constructs an engine with options of these sets
NewEngineFrom(strategies, dryRuns, sessionSources) ==
    /\ \E strategy \in strategies, dryRun \in dryRuns, sessions \in sessionSources :
          engine' = NewEngineOf(strategy, dryRun, sessions)
    /\ res' = NoResult
    /\ trace' = <<>>
    /\ UNCHANGED <<genes, capsules, events>>
    /\ UNCHANGED NotPipe

\* a program calls solidify(params) itself
SolidifyCall ==
    /\ \E i \in DOMAIN genes, input \in SolidifyInputs, dryRun \in BOOLEAN,
          cmdOk \in [1..MaxCommands -> BOOLEAN] :
          \E r \in {Solidify(DirectParams(genes[i], input, dryRun), cmdOk, capsules)} :
              /\ Len(events) + Len(r.appended) <= MaxDirectEvents
              /\ capsules' = r.capsules
              /\ events' = events \o r.appended
              /\ res' = [op |-> "solidify", reason |-> r.outcome, thrown |-> r.thrown,
                         solid |-> SolidView(DirectParams(genes[i], input, dryRun), r)]
              /\ trace' = r.calls
    /\ UNCHANGED <<genes, engine>>
    /\ UNCHANGED NotPipe

\* runCycle() returns or throws after its first `made` calls, leaving these
\* events, capsules and engine; logs longer than limit are not explored
CycleEnds(limit, reason, thrown, evts, caps, eng, made, solidCalls, solid) ==
    /\ Len(evts) <= limit
    /\ events' = evts
    /\ capsules' = caps
    /\ engine' = eng
    /\ res' = [op |-> "runCycle", reason |-> reason, thrown |-> thrown, solid |-> solid]
    /\ trace' = SubSeq(CycleCalls, 1, made) \o solidCalls
    /\ UNCHANGED genes
    /\ UNCHANGED NotPipe

\* runCycle() from step 5 on, a gene being selected
CycleWithGene(limit, cmdOk, counted, signals, evts1, strategyName, gene) ==
    \E evts2 \in {Append(evts1, CreateEvent("gene_selected",
                                            [gene_id |-> gene.id, category |-> gene.category],
                                            gene.id))},
       allowance \in {CheckStrategyAllowance(gene.category, STRATEGIES[strategyName],
                                             RecentMutations(evts1))},
       proposal \in {CycleMutation(gene)} :
        IF ~allowance.allowed
        THEN CycleEnds(limit, "strategy_blocked", FALSE, evts2, capsules, counted, 6, <<>>, NoSolidify)
        ELSE IF ~Falsy(gene.capability_node_id) /\ gene.v_score # NullScore
                /\ ~IsWorthEvolving(gene.v_score)
        THEN CycleEnds(limit, "low_v_score", FALSE, evts2, capsules, counted, 6, <<>>, NoSolidify)
        ELSE IF proposal.thrown
        THEN CycleEnds(limit, "invalid_mutation", TRUE, evts2, capsules, counted, 7, <<>>, NoSolidify)
        ELSE \E evts3 \in {Append(evts2,
                                  CreateEvent("mutation_applied",
                                              [category |-> proposal.mutation.category,
                                               target |-> proposal.mutation.target,
                                               risk_level |-> proposal.mutation.risk_level],
                                              gene.id))},
                params \in {CycleParams(gene, proposal.mutation, engine)} :
                 \E solid \in {Solidify(params, cmdOk, capsules)} :
                     CycleEnds(limit, "solidified", solid.thrown, evts3 \o solid.appended,
                               solid.capsules,
                               IF solid.thrown THEN counted
                               ELSE [counted EXCEPT !.personality =
                                         UpdatePersonality(@, solid.success, gene.category)],
                               9, solid.calls, SolidView(params, solid))

\* engine.runCycle(), the validation commands succeeding as one of outcomes says
RunCycleOf(limit, outcomes) ==
    /\ engine.cycleCount < MaxEngineCycles
    /\ \E cmdOk \in outcomes,
          counted \in {[engine EXCEPT !.cycleCount = @ + 1]},
          signals \in {ExtractSignals(engine, events)} :
          IF Len(signals) = 0
          THEN CycleEnds(limit, "no_signals", FALSE, events, capsules, counted, 1, <<>>, NoSolidify)
          ELSE \E evts1 \in {Append(events,
                                    CreateEvent("signal_extracted",
                                                [signals |-> signals, count |-> Len(signals)],
                                                NullId))} :
               \E strategyName \in {IF ~Falsy(engine.strategy) THEN engine.strategy
                                     ELSE AutoDetectStrategy(evts1)},
                  sel \in {SelectGene(signals, PreferCategory(engine.personality), genes)} :
                   IF strategyName \notin DOMAIN STRATEGIES
                   THEN CycleEnds(limit, "unknown_strategy", TRUE, evts1, capsules, counted, 3, <<>>,
                                  NoSolidify)
                   ELSE IF ~sel.found
                   THEN CycleEnds(limit, "no_matching_gene", FALSE, evts1, capsules, counted, 4, <<>>,
                                  NoSolidify)
                   ELSE CycleWithGene(limit, cmdOk, counted, signals, evts1, strategyName,
                                      sel.gene)

\* a program constructs an engine
NewEngine == NewEngineFrom(StrategyOptions, BOOLEAN, SessionSamples)

\* engine.runCycle()
RunCycle == RunCycleOf(MaxEvents, [1..MaxCommands -> BOOLEAN])

PipeNext == NewEngine \/ RunCycle

\* Runs of cycles under one forced preset: the engines of a run are
\* constructed with the preset and the dry-run option the run began with, each
\* with a session source that yields one signal; every validation command
\* succeeds.
QuotaPresets == {"balanced", "repair-only"}
QuotaSessions ==
    { [configured |-> TRUE, signals |-> <<Sig("recurring_error")>>],
      [configured |-> TRUE, signals |-> <<Sig("evolution_stagnation")>>] }
\* longest event log explored in such a run
MaxQuotaEvents == 35

QuotaRunInit ==
    /\ genes = <<GeneRepair, GeneInnovate>>
    /\ capsules = <<>>
    /\ events = <<>>
    /\ engine \in {NewEngineOf(preset, TRUE, sessions) :
                      preset \in QuotaPresets, sessions \in QuotaSessions}
    /\ res = NoResult
    /\ trace = <<>>

QuotaNewEngine == NewEngineFrom({engine.strategy}, {engine.dryRun}, QuotaSessions)

QuotaCycle == RunCycleOf(MaxQuotaEvents, {[c \in 1..MaxCommands |-> TRUE]})

QuotaRunNext == QuotaNewEngine \/ QuotaCycle

(***************************************************************************)
(* The capability tree (tree/node, tree/tree)                              *)
(***************************************************************************)
VALID_LEVELS == {"low", "mid", "high"}
VALID_STATUSES == {"active", "candidate", "pruned"}

\* undefined, as distinct from null
Undefined == "<undefined>"

\* a value that is an array, and one that is none
Arr(items) == [isArray |-> TRUE, items |-> items]
NotArray == [isArray |-> FALSE, items |-> <<>>]

\* last_triggered: null; a time is held as the milliseconds its ISO string parses to
NullTime == 0 - 1

\* createNode({id, name: "n", level: "low", parent_id})
CreateNode(id, parentId) ==
    [id |-> id, name |-> "n", level |-> "low", parent_id |-> parentId,
     preconditions |-> Arr(<<>>), linked_genes |-> Arr(<<>>), linked_skills |-> Arr(<<>>),
     children |-> Arr(<<>>), status |-> "active", v_score |-> NullScore,
     last_triggered |-> NullTime, trigger_count |-> 0]

\* the largest V-score a node may carry
MaxVScore == 100

\* validateNode(node)
ValidateNode(node) ==
    LET e1 == PushIf(Falsy(node.id) \/ node.id = Undefined, <<>>, "id is required")
        e2 == PushIf(Falsy(node.name), e1, "name is required")
        e3 == PushIf(node.level \notin VALID_LEVELS, e2, "invalid level")
        e4 == PushIf(node.parent_id = Undefined \/ node.parent_id = "", e3,
                     "parent_id is required")
        e5 == PushIf(node.status \notin VALID_STATUSES, e4, "invalid status")
        e6 == PushIf(~node.linked_genes.isArray, e5, "linked_genes must be an array")
        e7 == PushIf(~node.linked_skills.isArray, e6, "linked_skills must be an array")
        e8 == PushIf(~node.preconditions.isArray, e7, "preconditions must be an array")
        e9 == PushIf(~node.children.isArray, e8, "children must be an array")
        e10 == PushIf(node.trigger_count < 0, e9, "trigger_count must be a non-negative number")
        e11 == PushIf(node.v_score # NullScore /\ (node.v_score < 0 \/ node.v_score > MaxVScore),
                      e10, "v_score must be null or a number between 0 and 100")
    IN  [valid |-> Len(e11) = 0, errors |-> e11]

\* property names every plain object inherits from Object.prototype
ObjectPrototypeKeys == {"constructor", "toString", "valueOf", "hasOwnProperty"}

\* this.data.nodes[key] is truthy: an own entry or an inherited member
NodesHas(key) == key \in DOMAIN treeNodes \/ key \in ObjectPrototypeKeys

\* 24 * 60 * 60 * 1000
MsPerDay == 24 * 60 * 60 * 1000

\* the readings of Date.now() explored: a first one, then a day, and a day
\* and a millisecond later
FirstReading == 1000
ClockReadings == {FirstReading, FirstReading + MsPerDay, FirstReading + MsPerDay + 1}

\* the root the constructor gives a tree that has none
DefaultRoot ==
    [id |-> "cap", name |-> "Root", level |-> "high", parent_id |-> NullId,
     children |-> Arr(<<>>)]

\* new CapabilityTree() on an empty store: capability_tree.json is missing
\* and this.data is the array readJSON returns for it
TreeInit ==
    /\ treeFile = [exists |-> FALSE, text |-> <<>>]
    /\ treeData = Arr(<<>>)
    /\ treeRoot = DefaultRoot
    /\ treeNodes = <<>>
    /\ treeOrder = <<>>
    /\ now = FirstReading
    /\ inherited = [k \in ObjectPrototypeKeys |-> NotArray]
    /\ treeRes = [op |-> "new", node |-> NullId, thrown |-> FALSE, error |-> ""]

TreeThrows(op, node, error) ==
    /\ treeRes' = [op |-> op, node |-> node, thrown |-> TRUE, error |-> error]
    /\ UNCHANGED <<treeRoot, treeNodes, treeOrder, inherited>>

\* children.push(id), after `if (!Array.isArray(children)) children = []`
PushChild(children, id) ==
    Arr((IF children.isArray THEN children.items ELSE <<>>) \o <<id>>)

\* this.data.nodes[node.id] = node
PutNode(nodes, node) ==
    [k \in DOMAIN nodes \cup {node.id} |-> IF k = node.id THEN node ELSE nodes[k]]

\* tree.addNode(node), called as op
AddNodeAs(op, node) ==
    IF ~ValidateNode(node).valid THEN TreeThrows(op, node, "invalid")
    ELSE IF NodesHas(node.id) THEN TreeThrows(op, node, "exists")
    ELSE IF node.parent_id = treeRoot.id
    THEN /\ treeRoot' = [treeRoot EXCEPT !.children = PushChild(@, node.id)]
         /\ treeNodes' = PutNode(treeNodes, node)
         /\ treeOrder' = Append(treeOrder, node.id)
         /\ treeRes' = [op |-> op, node |-> node, thrown |-> FALSE, error |-> ""]
         /\ UNCHANGED inherited
    ELSE IF node.parent_id \in DOMAIN treeNodes
    THEN /\ treeNodes' = PutNode([treeNodes EXCEPT ![node.parent_id].children =
                                      PushChild(@, node.id)], node)
         /\ treeOrder' = Append(treeOrder, node.id)
         /\ treeRes' = [op |-> op, node |-> node, thrown |-> FALSE, error |-> ""]
         /\ UNCHANGED <<treeRoot, inherited>>
    ELSE IF node.parent_id \in ObjectPrototypeKeys
    THEN /\ inherited' = [inherited EXCEPT ![node.parent_id] = PushChild(@, node.id)]
         /\ treeNodes' = PutNode(treeNodes, node)
         /\ treeOrder' = Append(treeOrder, node.id)
         /\ treeRes' = [op |-> op, node |-> node, thrown |-> FALSE, error |-> ""]
         /\ UNCHANGED treeRoot
    ELSE TreeThrows(op, node, "no parent")

\* tree.addNode(node)
AddNodeOf(node) == AddNodeAs("addNode", node)

\* most nodes of a tree explored
MaxNodes == 3

TreeIds == {"cap", "cap.a", "cap.b", "constructor"}

NodeSamples ==
    {CreateNode(id, parentId) : id \in TreeIds, parentId \in TreeIds \cup {"cap.x", NullId}}
    \cup { [CreateNode("cap.a", "cap") EXCEPT !.name = ""],
           [CreateNode("cap.a", "cap") EXCEPT !.level = "top"],
           [CreateNode("cap.a", "cap") EXCEPT !.parent_id = ""],
           [CreateNode("cap.a", "cap") EXCEPT !.parent_id = Undefined],
           [CreateNode("cap.a", "cap") EXCEPT !.status = "gone"],
           [CreateNode("cap.a", "cap") EXCEPT !.children = NotArray],
           [CreateNode("cap.a", "cap") EXCEPT !.children = Arr(<<"cap.b">>)],
           [CreateNode("cap.a", "cap") EXCEPT !.trigger_count = 0 - 1],
           [CreateNode("cap.a", "cap") EXCEPT !.v_score = MaxVScore + 1],
           [CreateNode("", "cap") EXCEPT !.linked_genes = NotArray] }

\* a program calls tree.addNode(node)
AddNode ==
    /\ Cardinality(DOMAIN treeNodes) < MaxNodes
    /\ \E node \in NodeSamples : AddNodeOf(node)
    /\ UNCHANGED <<now, NotTree>>

(***************************************************************************)
(* The other operations of the capability tree (tree/tree).  A tree is     *)
(* handed to the operators below as a record of the four tree variables;   *)
(* `thrown` tells that the call in progress has thrown.                    *)
(***************************************************************************)
Tree == [root |-> treeRoot, nodes |-> treeNodes, order |-> treeOrder, inh |-> inherited,
         thrown |-> FALSE]

SetTree(t) ==
    /\ treeRoot' = t.root
    /\ treeNodes' = t.nodes
    /\ treeOrder' = t.order
    /\ inherited' = t.inh

\* items.filter(cid => cid !== id)
Without(items, id) == SelectSeq(items, LAMBDA cid : cid # id)

\* this.data.nodes[key] of tree t is truthy
Has(t, key) == key \in DOMAIN t.nodes \/ key \in ObjectPrototypeKeys

\* the parent_id and children that this.data.nodes[key] carries: those of the
\* entry, or for an inherited member no parent_id and the children left on it
Lookup(t, key) ==
    IF key \in DOMAIN t.nodes
    THEN [parent_id |-> t.nodes[key].parent_id, children |-> t.nodes[key].children]
    ELSE [parent_id |-> Undefined, children |-> t.inh[key]]

\* removeNode: the parent's children lose id, then `delete this.data.nodes[id]`;
\* filtering the children of a parent that has none throws a TypeError
DetachAndDelete(t, parentId, id) ==
    LET deleted == [k \in DOMAIN t.nodes \ {id} |-> t.nodes[k]]
        order == Without(t.order, id)
    IN  IF parentId = t.root.id
        THEN [t EXCEPT !.root.children = Arr(Without(@.items, id)),
                       !.nodes = deleted, !.order = order]
        ELSE IF parentId \in DOMAIN t.nodes
        THEN IF ~t.nodes[parentId].children.isArray THEN [t EXCEPT !.thrown = TRUE]
             ELSE [t EXCEPT !.nodes = [k \in DOMAIN deleted |->
                                          IF k = parentId
                                          THEN [deleted[k] EXCEPT !.children =
                                                                    Arr(Without(@.items, id))]
                                          ELSE deleted[k]],
                            !.order = order]
        ELSE IF parentId \in ObjectPrototypeKeys
        THEN IF ~t.inh[parentId].isArray THEN [t EXCEPT !.thrown = TRUE]
             ELSE [t EXCEPT !.inh[parentId] = Arr(Without(@.items, id)),
                            !.nodes = deleted, !.order = order]
        ELSE [t EXCEPT !.nodes = deleted, !.order = order]

RECURSIVE RemoveFrom(_, _, _)
RECURSIVE RemoveAll(_, _, _)

\* this.removeNode(id) on tree t, while the removals of the ids in `path` are
\* in progress; a removal that re-enters itself recurses until the stack
\* overflows, and the RangeError ends every removal in progress
RemoveFrom(t, id, path) ==
    IF t.thrown \/ ~Has(t, id) THEN t
    ELSE IF id \in path THEN [t EXCEPT !.thrown = TRUE]
    ELSE LET node == Lookup(t, id)
             childIds == IF node.children.isArray THEN node.children.items ELSE <<>>
         IN  \* the parent is detached only when the removal of the children returned
             IF RemoveAll(t, childIds, path \cup {id}).thrown
             THEN RemoveAll(t, childIds, path \cup {id})
             ELSE DetachAndDelete(RemoveAll(t, childIds, path \cup {id}), node.parent_id, id)

\* for (const childId of childIds) this.removeNode(childId)
RemoveAll(t, childIds, path) ==
    IF childIds = <<>> THEN t
    ELSE RemoveAll(RemoveFrom(t, Head(childIds), path), Tail(childIds), path)

\* tree.getNode(id): the root, a node, an inherited member, or null
GetNode(id) ==
    IF id = treeRoot.id THEN [found |-> TRUE, kind |-> "root"]
    ELSE IF id \in DOMAIN treeNodes THEN [found |-> TRUE, kind |-> "node"]
    ELSE IF id \in ObjectPrototypeKeys THEN [found |-> TRUE, kind |-> "inherited"]
    ELSE [found |-> FALSE, kind |-> "null"]

\* ids handed to removeNode, mergeNodes and growNode
OpsIds == {"cap.a", "cap.b", "cap.a.c", "constructor"}

\* a program calls tree.removeNode(id)
RemoveNode ==
    /\ \E id \in OpsIds :
         \E t \in {RemoveFrom(Tree, id, {})} :
            /\ SetTree(t)
            /\ treeRes' = [op |-> "removeNode", id |-> id, thrown |-> t.thrown,
                           ret |-> NodesHas(id) /\ ~t.thrown]
    /\ UNCHANGED <<now, NotTree>>

\* x is one of items
In(x, items) == \E i \in 1..Len(items) : items[i] = x

\* [...new Set(items)]: the first occurrence of each member, in order
RECURSIVE Distinct(_)
Distinct(items) ==
    IF items = <<>> THEN <<>>
    ELSE IF In(items[Len(items)], SubSeq(items, 1, Len(items) - 1))
    THEN Distinct(SubSeq(items, 1, Len(items) - 1))
    ELSE Append(Distinct(SubSeq(items, 1, Len(items) - 1)), items[Len(items)])

\* mergeNodes: every child of the merged node that is in the node map gets the
\* keeper as parent and is pushed onto the keeper's children unless it is there
RECURSIVE Reparent(_, _, _)
Reparent(nodes, keeperId, childIds) ==
    IF childIds = <<>> THEN nodes
    ELSE IF Head(childIds) \notin DOMAIN nodes THEN Reparent(nodes, keeperId, Tail(childIds))
    ELSE Reparent(
            [k \in DOMAIN nodes |->
                IF k = keeperId
                THEN [nodes[k] EXCEPT
                        !.parent_id = IF k = Head(childIds) THEN keeperId ELSE @,
                        !.children = IF In(Head(childIds), @.items) THEN @
                                     ELSE Arr(Append(@.items, Head(childIds)))]
                ELSE IF k = Head(childIds) THEN [nodes[k] EXCEPT !.parent_id = keeperId]
                ELSE nodes[k]],
            keeperId, Tail(childIds))

\* the argument mergeNodes keeps: the first unless the second was triggered more
KeeperOf(nodes, id1, id2) ==
    IF nodes[id1].trigger_count >= nodes[id2].trigger_count THEN id1 ELSE id2

MergedOf(nodes, id1, id2) ==
    IF nodes[id1].trigger_count >= nodes[id2].trigger_count THEN id2 ELSE id1

\* tree.mergeNodes(id1, id2) for two ids of the node map
MergeIn(t, id1, id2) ==
    LET keeperId == KeeperOf(t.nodes, id1, id2)
        mergedId == MergedOf(t.nodes, id1, id2)
        unioned == [t.nodes EXCEPT
                      ![keeperId].linked_genes =
                          Arr(Distinct(@.items \o t.nodes[mergedId].linked_genes.items)),
                      ![keeperId].linked_skills =
                          Arr(Distinct(@.items \o t.nodes[mergedId].linked_skills.items))]
        mergedChildren == IF unioned[mergedId].children.isArray
                          THEN unioned[mergedId].children.items ELSE <<>>
        reparented == Reparent(unioned, keeperId, mergedChildren)
    IN  DetachAndDelete([t EXCEPT !.nodes = reparented], reparented[mergedId].parent_id,
                        mergedId)

\* a program calls tree.mergeNodes(id1, id2); the ids handed in are never
\* names of inherited members
MergeNodes ==
    /\ \E id1, id2 \in OpsIds \ ObjectPrototypeKeys :
         IF ~NodesHas(id1) \/ ~NodesHas(id2)
         THEN /\ treeRes' = [op |-> "mergeNodes", id1 |-> id1, id2 |-> id2, thrown |-> TRUE,
                             keeper |-> NullId]
              /\ UNCHANGED <<treeRoot, treeNodes, treeOrder, inherited>>
         ELSE \E t \in {MergeIn(Tree, id1, id2)} :
                 /\ SetTree(t)
                 /\ treeRes' = [op |-> "mergeNodes", id1 |-> id1, id2 |-> id2,
                                thrown |-> t.thrown,
                                keeper |-> KeeperOf(treeNodes, id1, id2)]
    /\ UNCHANGED <<now, NotTree>>

\* a node is pruned when its value score is null or below this
StaleVScore == 40

IsStaleAtThreshold(node, thresholdMs, clock) ==
    /\ node.status # "pruned"
    /\ node.last_triggered # NullTime
    /\ clock - node.last_triggered >= thresholdMs
    /\ (node.v_score = NullScore \/ node.v_score < StaleVScore)

\* pruneStale: the test that marks a node as pruned
IsStale(node, thresholdMs, clock) ==
    /\ node.status # "pruned"
    /\ node.last_triggered # NullTime
    /\ clock - node.last_triggered > thresholdMs
    /\ (node.v_score = NullScore \/ node.v_score < StaleVScore)

PruneOneRevive(node, thresholdMs, clock) ==
    IF IsStale(node, thresholdMs, clock) THEN [node EXCEPT !.status = "pruned"]
    ELSE IF node.status = "pruned" THEN [node EXCEPT !.status = "candidate"]
    ELSE node

\* the node as pruneStale leaves it
PruneOne(node, thresholdMs, clock) ==
    IF IsStale(node, thresholdMs, clock) THEN [node EXCEPT !.status = "pruned"] ELSE node

\* thresholds, in days, handed to pruneStale
ThresholdDays == {0, 1}

\* a program calls tree.pruneStale(threshold)
PruneStale ==
    /\ \E threshold \in ThresholdDays :
         /\ treeNodes' = [id \in DOMAIN treeNodes |->
                             PruneOne(treeNodes[id], threshold * MsPerDay, now)]
         /\ treeRes' = [op |-> "pruneStale", threshold |-> threshold, thrown |-> FALSE,
                        pruned |-> {id \in DOMAIN treeNodes :
                                       IsStale(treeNodes[id], threshold * MsPerDay, now)}]
    /\ UNCHANGED <<treeRoot, treeOrder, inherited, now, NotTree>>

\* Date.now() returns a later reading from now on
Tick ==
    /\ \E reading \in ClockReadings : reading > now /\ now' = reading
    /\ treeRes' = [op |-> "tick", thrown |-> FALSE]
    /\ UNCHANGED <<treeRoot, treeNodes, treeOrder, inherited, NotTree>>

\* a program calls tree.growNode(parentId, {id, name: "n", level: "low"})
GrowNode ==
    /\ Cardinality(DOMAIN treeNodes) < MaxNodes
    /\ \E parentId \in {"cap", "cap.a", "cap.x", "constructor"}, id \in {"cap.a.c", ""} :
         IF ~GetNode(parentId).found THEN TreeThrows("growNode", NullId, "no parent")
         ELSE IF Falsy(id) THEN TreeThrows("growNode", NullId, "Node id is required")
         ELSE AddNodeAs("growNode", CreateNode(id, parentId))
    /\ UNCHANGED <<now, NotTree>>

\* a node a caller has built with createNode and then filled in: status,
\* value score, trigger statistics (touchNode) and linked genes
FilledNode(id, parentId, status, vScore, lastTriggered, triggerCount, linkedGenes) ==
    [CreateNode(id, parentId) EXCEPT !.status = status, !.v_score = vScore,
                                     !.last_triggered = lastTriggered,
                                     !.trigger_count = triggerCount,
                                     !.linked_genes = Arr(linkedGenes)]

FilledSamples ==
    { FilledNode("cap.a", "cap", "active", NullScore, FirstReading, 1, <<"gene_r">>),
      FilledNode("cap.a", "cap", "candidate", StaleVScore, FirstReading, 2, <<>>),
      FilledNode("cap.b", "cap", "active", StaleVScore - 1, FirstReading, 1,
                 <<"gene_i", "gene_r">>),
      FilledNode("cap.b", "cap.a", "candidate", 0, NullTime, 0, <<"gene_i">>),
      FilledNode("cap.b", "cap", "pruned", NullScore, FirstReading, 0, <<>>),
      FilledNode("cap.a.c", "cap.a", "active", StaleVScore - 1, FirstReading, 2,
                 <<"gene_r">>) }

\* a program calls tree.addNode(node) with a node it has filled in
AddFilled ==
    /\ Cardinality(DOMAIN treeNodes) < MaxNodes
    /\ \E node \in FilledSamples : AddNodeOf(node)
    /\ UNCHANGED <<now, NotTree>>

RECURSIVE GetPathFrom(_, _, _)
\* tree.getPath: the loop of getPath at currentId with `path` collected so far;
\* a chain of parent links that comes back to a node it has passed never ends
GetPathFrom(currentId, path, passed) ==
    IF Falsy(currentId) \/ currentId = Undefined THEN [path |-> path, ends |-> TRUE]
    ELSE IF currentId = treeRoot.id THEN [path |-> <<"root">> \o path, ends |-> TRUE]
    ELSE IF ~NodesHas(currentId) THEN [path |-> path, ends |-> TRUE]
    ELSE IF currentId \in passed THEN [path |-> path, ends |-> FALSE]
    ELSE GetPathFrom(Lookup(Tree, currentId).parent_id, <<currentId>> \o path,
                     passed \cup {currentId})

\* tree.getPath(id)
GetPath(id) == GetPathFrom(id, <<>>, {})

\* findPath: how often the signals_match entries of the node's linked genes
\* are among the signals; geneMap holds the last stored gene of each id
NodeScore(node, store, signals) ==
    LET perGene == [g \in 1..Len(node.linked_genes.items) |->
                      LET stored == {i \in DOMAIN store :
                                        store[i].id = node.linked_genes.items[g]}
                      IN  IF stored = {} THEN 0
                          ELSE LET gene == store[CHOOSE i \in stored : \A j \in stored : j <= i]
                               IN  Cardinality({k \in DOMAIN gene.signals_match :
                                                  In(gene.signals_match[k], signals)})]
    IN  SumTo(perGene, Len(node.linked_genes.items))

\* findPath: the id of the first node, in the order of the node map, with the
\* highest score above zero among the active nodes; NullId when there is none
BestNode(store, signals) ==
    LET score == [i \in DOMAIN treeOrder |->
                    IF treeNodes[treeOrder[i]].status # "active" THEN 0
                    ELSE NodeScore(treeNodes[treeOrder[i]], store, signals)]
        best == {i \in DOMAIN treeOrder :
                    /\ score[i] > 0
                    /\ \A j \in DOMAIN treeOrder : score[j] <= score[i]
                    /\ \A j \in 1..(i - 1) : score[j] < score[i]}
    IN  IF best = {} THEN NullId ELSE treeOrder[CHOOSE i \in best : TRUE]

\* signals handed to findPath
PathSignals ==
    {<<Sig("recurring_error")>>, <<Sig("evolution_stagnation"), Sig("recurring_error")>>}

\* a program calls tree.findPath(signals)
FindPath ==
    /\ \E signals \in PathSignals :
         \E bestNodeId \in {BestNode(genes, signals)} :
            \E found \in {IF bestNodeId = NullId THEN [path |-> <<>>, ends |-> TRUE]
                           ELSE GetPath(bestNodeId)} :
               treeRes' = [op |-> "findPath", signals |-> signals, thrown |-> FALSE,
                           best |-> bestNodeId, path |-> found.path, ends |-> found.ends]
    /\ UNCHANGED <<treeRoot, treeNodes, treeOrder, inherited, now, NotTree>>

\* the store the tree operations read linked genes from
TreeOpsInit ==
    /\ TreeInit
    /\ genes = <<GeneRepair, GeneInnovate>>
    /\ capsules = <<>>
    /\ events = <<>>
    /\ engine = NewEngineOf(NullId, FALSE, NoSessions)
    /\ res = NoResult
    /\ trace = <<>>

TreeOpsNext ==
    \/ AddFilled
    \/ GrowNode
    \/ RemoveNode
    \/ MergeNodes
    \/ PruneStale
    \/ FindPath
    \/ Tick

(***************************************************************************)
(* Functions called on their own                                           *)
(***************************************************************************)
NotReturned == [returned |-> FALSE]

CallIdle ==
    /\ call = [fn |-> "none"]
    /\ ret = NotReturned

\* n mutations of one category
Mutations(n, category) == [i \in 1..n |-> [category |-> category]]

\* most mutations that precede the ten most recent ones
MaxOlder == 1

\* recentMutations: fewer than ten of them, or ten of which k are innovate
\* and the rest repair, after up to MaxOlder older ones
QuotaHistories ==
    {Mutations(n, "innovate") : n \in {0, QuotaWindow - 1}}
    \cup {Mutations(o, older) \o Mutations(k, "innovate") \o Mutations(QuotaWindow - k, "repair") :
             o \in 0..MaxOlder, older \in {"innovate", "repair"}, k \in 0..QuotaWindow}

\* strategyWeights: the presets and an allocation of the caller's own
WeightSamples ==
    {STRATEGIES[name] : name \in DOMAIN STRATEGIES}
    \cup {[innovate |-> 70, optimize |-> 20, repair |-> 10]}

QuotaCategories == {"repair", "optimize", "innovate", "refactor"}

QuotaInit ==
    /\ call \in {[fn |-> "checkStrategyAllowance", category |-> c, strategyWeights |-> w,
                   recentMutations |-> h] :
                     c \in QuotaCategories, w \in WeightSamples, h \in QuotaHistories}
    /\ ret = NotReturned

\* a gene whose first pattern ends with its colon
GeneColon ==
    [GeneVague EXCEPT !.id = "gene_k", !.idText = <<"g", "e", "n", "e", "_", "k">>,
                      !.signals_match = <<SigOf("errsig", ""), Sig("recurring_error")>>]

\* a stored gene without patterns
GeneBare ==
    [GeneInnovate EXCEPT !.id = "gene_b", !.idText = <<"g", "e", "n", "e", "_", "b">>,
                         !.signals_match = <<>>]

SelectorStores ==
    GeneStores \cup { <<>>, <<GeneColon, GeneCap, GeneInnovate, GeneBare>> }

SignalNames ==
    <<SigOf("errsig", "timeout"), Sig("recurring_error"), Sig("evolution_stagnation"),
      Sig("stable_success_plateau")>>

\* most signals handed to the selector
MaxSignals == 2

\* signal lists without repetition, in the order of SignalNames
RECURSIVE SignalLists(_)
SignalLists(n) ==
    IF n = 0 THEN { <<>> }
    ELSE SignalLists(n - 1)
         \cup {Append(l, SignalNames[k]) : l \in SignalLists(n - 1), k \in DOMAIN SignalNames}

SignalSamples ==
    {l \in SignalLists(MaxSignals) :
        \A i, j \in DOMAIN l : i < j =>
            \E a, b \in DOMAIN SignalNames : a < b /\ l[i] = SignalNames[a] /\ l[j] = SignalNames[b]}

\* the gene store and the arguments of one call of the selector
SelectorInit ==
    /\ genes \in SelectorStores
    /\ capsules = <<>>
    /\ events = <<>>
    /\ engine = NewEngineOf(NullId, FALSE, NoSessions)
    /\ res = NoResult
    /\ trace = <<>>
    /\ call \in {[fn |-> "selectGene", signals |-> sg, preferCategory |-> c, minScoreTenths |-> m] :
                     sg \in SignalSamples, c \in {NullId, "repair", "innovate"},
                     m \in {MinScoreTenths, 5}}
                \cup {[fn |-> "rankGenes", signals |-> sg] : sg \in SignalSamples}
                \cup {[fn |-> "matchScore", gene |-> g, signals |-> sg] :
                         g \in {genes[i] : i \in DOMAIN genes}, sg \in SignalSamples}
    /\ ret = NotReturned

\* selectGene(signals, {preferCategory, minScore}) is called
CallSelectGene ==
    /\ call.fn = "selectGene"
    /\ ~ret.returned
    /\ ret' = [returned |-> TRUE,
               value |-> SelectGeneWith(call.signals, call.preferCategory,
                                        call.minScoreTenths, genes)]
    /\ UNCHANGED <<call, NotCall>>

\* rankGenes(signals) is called
CallRankGenes ==
    /\ call.fn = "rankGenes"
    /\ ~ret.returned
    /\ ret' = [returned |-> TRUE, value |-> RankGenes(call.signals, genes)]
    /\ UNCHANGED <<call, NotCall>>

\* matchScore(gene, signals) is called
CallMatchScore ==
    /\ call.fn = "matchScore"
    /\ ~ret.returned
    /\ ret' = [returned |-> TRUE, value |-> MatchScore(call.gene, call.signals)]
    /\ UNCHANGED <<call, NotCall>>

SelectorNext ==
    \/ CallSelectGene
    \/ CallRankGenes
    \/ CallMatchScore

\* a node is a candidate for pruning after so many days without trigger
CANDIDATE_PRUNE_DAYS == 30
\* a node is pruned automatically after so many days without trigger
AUTO_PRUNE_DAYS == 60
\* the value score below which an untriggered node is a candidate
PRUNE_VSCORE_THRESHOLD == 40
\* MERGE_SIMILARITY_THRESHOLD = 0.8, in tenths
MergeSimilarityTenths == 8

\* the characters /[\s.]+/ splits at
Separators == Whitespace \cup {"."}

\* name.split(/[\s.]+/).filter(Boolean) as a set: the maximal runs of
\* characters that are no separators, from position i on, `token` being the
\* run in progress
RECURSIVE TokensFrom(_, _, _, _)
TokensFrom(text, i, token, tokens) ==
    IF i > Len(text) THEN (IF token = <<>> THEN tokens ELSE tokens \cup {token})
    ELSE IF text[i] \in Separators
    THEN TokensFrom(text, i + 1, <<>>, IF token = <<>> THEN tokens ELSE tokens \cup {token})
    ELSE TokensFrom(text, i + 1, Append(token, text[i]), tokens)

\* tokenize(name)
Tokenize(name) ==
    IF Len(name) = 0 THEN {} ELSE TokensFrom(ToLowerCase(name), 1, <<>>, {})

\* jaccardSimilarity(setA, setB)
JaccardSimilarity(setA, setB) ==
    IF setA = {} /\ setB = {} THEN Divide(1, 1)
    ELSE IF setA = {} \/ setB = {} THEN Zero
    ELSE Divide(Cardinality(setA \cap setB),
                Cardinality(setA) + Cardinality(setB) - Cardinality(setA \cap setB))

\* a time as the day it falls on and the milliseconds into that day;
\* last_triggered: null is NeverTriggered
NeverTriggered == [set |-> FALSE, day |-> 0, ms |-> 0]
At(day, ms) == [set |-> TRUE, day |-> day, ms |-> ms]

\* daysSinceTriggered(node) > days: Infinity for a node never triggered,
\* else (nowMs - lastMs) / (24 * 60 * 60 * 1000) > days
DaysSinceExceed(node, clock, days) ==
    \/ ~node.last_triggered.set
    \/ clock.day - node.last_triggered.day > days
    \/ /\ clock.day - node.last_triggered.day = days
       /\ clock.ms > node.last_triggered.ms

\* the pairs [activeNodes[i].id, activeNodes[j].id] pushed for j > i, j from `j` on
RECURSIVE MergePairs(_, _, _, _)
MergePairs(activeNodes, tokens, i, j) ==
    IF i > Len(activeNodes) THEN <<>>
    ELSE IF j > Len(activeNodes) THEN MergePairs(activeNodes, tokens, i + 1, i + 2)
    ELSE (IF Greater(JaccardSimilarity(tokens[i], tokens[j]),
                     Divide(MergeSimilarityTenths, 10))
          THEN << <<activeNodes[i].id, activeNodes[j].id>> >> ELSE <<>>)
         \o MergePairs(activeNodes, tokens, i, j + 1)

\* the part of analyzePruning after the filter
AnalyzeActive(activeNodes, clock) ==
    [auto_prune |-> SelectSeq(activeNodes,
                              LAMBDA node : DaysSinceExceed(node, clock, AUTO_PRUNE_DAYS)),
     candidate_prune |->
         SelectSeq(activeNodes,
                   LAMBDA node : /\ ~DaysSinceExceed(node, clock, AUTO_PRUNE_DAYS)
                                 /\ DaysSinceExceed(node, clock, CANDIDATE_PRUNE_DAYS)
                                 /\ (node.v_score = NullScore
                                     \/ node.v_score < PRUNE_VSCORE_THRESHOLD)),
     merge_suggestions |->
         CHOOSE r \in {MergePairs(activeNodes, tokens, 1, 2) :
                          tokens \in {[i \in DOMAIN activeNodes |->
                                         Tokenize(activeNodes[i].name)]}} : TRUE]

\* analyzePruning(nodes) when Date.now() reads clock
AnalyzePruning(nodes, clock) ==
    AnalyzeActive(SelectSeq(nodes, LAMBDA n : n.status # "pruned"), clock)

RichMessagingHandler ==
    <<"R", "i", "c", "h", " ", "M", "e", "s", "s", "a", "g", "i", "n", "g", " ", "H", "a",
    "n", "d", "l", "e", "r">>

HandlerForRichMessaging ==
    <<"H", "a", "n", "d", "l", "e", "r", " ", "f", "o", "r", " ", "r", "i", "c", "h", " ",
    "m", "e", "s", "s", "a", "g", "i", "n", "g">>

RichDotMessaging ==
    <<"r", "i", "c", "h", ".", "m", "e", "s", "s", "a", "g", "i", "n", "g", " ", " ", "H",
    "A", "N", "D", "L", "E", "R">>

FiveWords ==
    <<"a", " ", "b", " ", "c", " ", "d", " ", "e">>

FourWords ==
    <<"a", " ", "b", " ", "c", " ", "d">>

SixWords ==
    <<"a", " ", "b", " ", "c", " ", "d", " ", "e", " ", "f">>

OneDot ==
    <<".">>

TwoDots ==
    <<".", ".">>

\* the day and time analyzePruning is called on
PrunerClock == At(100, 0)

PrunerNode(id, name, status, vScore, lastTriggered) ==
    [id |-> id, name |-> name, status |-> status, v_score |-> vScore,
     last_triggered |-> lastTriggered]

\* nodes handed to analyzePruning
PrunerPool ==
    { PrunerNode("cap.rich", RichMessagingHandler, "active", NullScore, NeverTriggered),
      PrunerNode("cap.handler", HandlerForRichMessaging, "active",
                 PRUNE_VSCORE_THRESHOLD - 1,
                 At(PrunerClock.day - CANDIDATE_PRUNE_DAYS - 1, MsPerDay - 1)),
      PrunerNode("cap.rich2", RichDotMessaging, "candidate", PRUNE_VSCORE_THRESHOLD,
                 At(PrunerClock.day - CANDIDATE_PRUNE_DAYS - 1, 0)),
      PrunerNode("cap.five", FiveWords, "active", MaxVScore,
                 At(PrunerClock.day - AUTO_PRUNE_DAYS - 1, 0)),
      PrunerNode("cap.four", FourWords, "active", NullScore,
                 At(PrunerClock.day - AUTO_PRUNE_DAYS, 0)),
      PrunerNode("cap.six", SixWords, "active", 0,
                 At(PrunerClock.day - CANDIDATE_PRUNE_DAYS, 0)),
      PrunerNode("cap.dot", OneDot, "active", NullScore, PrunerClock),
      PrunerNode("cap.dots", TwoDots, "candidate", NullScore, PrunerClock),
      PrunerNode("cap.gone", RichMessagingHandler, "pruned", NullScore, PrunerClock) }

\* most nodes handed to analyzePruning
MaxPrunerNodes == 3

\* lists of different nodes of the pool
RECURSIVE NodeLists(_)
NodeLists(n) ==
    IF n = 0 THEN { <<>> }
    ELSE NodeLists(n - 1)
         \cup {Append(l, node) : l \in NodeLists(n - 1),
                                 node \in PrunerPool}

PrunerInit ==
    /\ call \in {[fn |-> "analyzePruning", nodes |-> l, clock |-> PrunerClock] :
                     l \in {x \in NodeLists(MaxPrunerNodes) :
                               \A i, j \in DOMAIN x : i # j => x[i].id # x[j].id}}
    /\ ret = NotReturned

\* analyzePruning(nodes) is called
CallAnalyzePruning ==
    /\ call.fn = "analyzePruning"
    /\ ~ret.returned
    /\ ret' = [returned |-> TRUE, value |-> AnalyzePruning(call.nodes, call.clock)]
    /\ UNCHANGED <<call, NotCall>>

\* most files of a blast radius handed to assessRisk
MaxBlastFiles == 12

LineSamples == {0, RiskLineLimit - 1, RiskLineLimit, RiskLineLimit + 1, 2 * RiskLineLimit}

RiskInit ==
    /\ call \in {[fn |-> "assessRisk", mutation |-> [category |-> c],
                   blast |-> [files |-> f, lines |-> l]] :
                     c \in DOMAIN RISK_MAP, f \in 0..MaxBlastFiles, l \in LineSamples}
    /\ ret = NotReturned

\* assessRisk(mutation, blast) is called
CallAssessRisk ==
    /\ call.fn = "assessRisk"
    /\ ~ret.returned
    /\ ret' = [returned |-> TRUE, value |-> AssessRisk(call.mutation, call.blast)]
    /\ UNCHANGED <<call, NotCall>>

\* checkStrategyAllowance(category, strategyWeights, recentMutations) is called
CallCheckStrategyAllowance ==
    /\ call.fn = "checkStrategyAllowance"
    /\ ~ret.returned
    /\ ret' = [returned |-> TRUE,
               value |-> CheckStrategyAllowance(call.category, call.strategyWeights,
                                                call.recentMutations)]
    /\ UNCHANGED <<call, NotCall>>

(***************************************************************************)
(* PCEC cycles (pcec/cycle)                                                *)
(***************************************************************************)
EXCLUDE_KEYWORDS == <<
    <<"u603B", "u7ED3">>,
    <<"u56DE", "u987E">>,
    <<"u590D", "u8FF0">>,
    <<"u6CA1", "u6709", "u660E", "u663E">>,
    <<"u683C", "u5F0F">>,
    <<"u63AA", "u8F9E">>  >>

SUBSTANTIVE_TYPES == {"capability", "abstraction", "leverage"}

\* stagnantCount at and above which a breakthrough is forced
ForceThreshold == 2

\* new PCECCycle()
NewPCECCycle == [outcomes |-> <<>>, status |-> "running"]

\* the state when the module is loaded
PcecInit ==
    /\ stagnantCount = 0
    /\ pcecCycles = <<>>
    /\ completions = <<>>
    /\ pcecOp = [op |-> "none"]

PcecIdle == PcecInit

\* the entry addOutcome pushes: type || 'unknown', description || ''
OutcomeEntry(outcome) ==
    [type |-> IF Falsy(outcome.type) THEN "unknown" ELSE outcome.type,
     description |-> IF EffectTruthy(outcome.description) THEN outcome.description
                     ELSE Text(<<>>)]

\* an outcome counts: its type is a substantive one and its description is a
\* non-empty string that holds no excluded keyword
CountsAsSubstantive(o) ==
    /\ o.type \in SUBSTANTIVE_TYPES
    /\ o.description.kind = "string"
    /\ Len(o.description.text) > 0
    /\ \A k \in DOMAIN EXCLUDE_KEYWORDS : ~Includes(o.description.text, EXCLUDE_KEYWORDS[k])

HasSubstantiveOutcome(cycle) ==
    \E i \in DOMAIN cycle.outcomes : CountsAsSubstantive(cycle.outcomes[i])

\* the counter after a completion: resetStagnantCount() or stagnantCount += 1
CountAfterKept(substantive, count) == IF substantive THEN count ELSE count + 1

CountAfter(substantive, count) == IF substantive THEN 0 ELSE count + 1

NeedsForceBreakthrough == stagnantCount >= ForceThreshold

\* most cycles constructed, outcomes recorded in one cycle, and complete() calls
MaxPcecCycles == 2
MaxOutcomes == 2
MaxCompletions == 4

\* descriptions: a plain one, one that holds an excluded keyword, the empty
\* string, none, and a truthy value that is no string
PlainDescription == Text(<<"n", "e", "w", " ", "t", "o", "o", "l">>)
FillerDescription == Text(<<"u672C", "u6B21", "u603B", "u7ED3">>)
DescriptionSamples ==
    {PlainDescription, FillerDescription, Text(<<>>), [kind |-> "missing"], [kind |-> "number"]}

\* the arguments of addOutcome: an object, or a value that is none
OutcomeSamples ==
    {[kind |-> "object", type |-> "capability", description |-> d] : d \in DescriptionSamples}
    \cup {[kind |-> "object", type |-> t, description |-> PlainDescription] :
              t \in {"note", NullId}}
    \cup {[kind |-> "null"]}

\* const cycle = new PCECCycle()
NewCycle ==
    /\ Len(pcecCycles) < MaxPcecCycles
    /\ pcecCycles' = Append(pcecCycles, NewPCECCycle)
    /\ pcecOp' = [op |-> "new"]
    /\ UNCHANGED <<stagnantCount, completions, NotPcec>>

\* cycle.addOutcome(outcome)
AddOutcome ==
    \E c \in DOMAIN pcecCycles, outcome \in OutcomeSamples :
        /\ Len(pcecCycles[c].outcomes) < MaxOutcomes
        /\ pcecCycles' =
              IF outcome.kind # "object" THEN pcecCycles
              ELSE [pcecCycles EXCEPT ![c].outcomes = Append(@, OutcomeEntry(outcome))]
        /\ pcecOp' = [op |-> "addOutcome"]
        /\ UNCHANGED <<stagnantCount, completions, NotPcec>>

\* cycle.complete()
Complete ==
    \E c \in DOMAIN pcecCycles :
        /\ Len(completions) < MaxCompletions
        /\ \E substantive \in {HasSubstantiveOutcome(pcecCycles[c])} :
              /\ pcecCycles' = [pcecCycles EXCEPT
                    ![c].status = IF substantive THEN "completed" ELSE "stagnant"]
              /\ stagnantCount' = CountAfter(substantive, stagnantCount)
              /\ completions' = Append(completions,
                    [substantive |-> substantive,
                     stagnant_count |-> CountAfter(substantive, stagnantCount)])
        /\ pcecOp' = [op |-> "complete"]
        /\ UNCHANGED NotPcec

PcecNext == NewCycle \/ AddOutcome \/ Complete

(***************************************************************************)
(* The VFM weight mutator (vfm/mutator). A weight is a number held in      *)
(* quarters, or NaN; the weights the mutator is given and every amount it  *)
(* adds are whole quarters, which doubles add and compare exactly. The     *)
(* rates are ratios of two counts and are compared exactly; for lists of   *)
(* up to 40 capsules the double comparison gives the same answer.          *)
(***************************************************************************)
Num(q) == [nan |-> FALSE, q |-> q]

\* NaN, which is also what arithmetic makes of a weight that is undefined
NaN == [nan |-> TRUE, q |-> 0]

\* x + d for a number of quarters d
PlusQuarters(x, d) == IF x.nan THEN NaN ELSE Num(x.q + d)

\* Math.max and Math.min of a weight and a finite bound
MathMax(x, bound) == IF x.nan THEN NaN ELSE IF x.q > bound THEN x ELSE Num(bound)
MathMin(x, bound) == IF x.nan THEN NaN ELSE IF x.q < bound THEN x ELSE Num(bound)

\* 0.5, 1 and 5 in quarters
MAX_ADJUSTMENT == 2
WEIGHT_MIN == 4
WEIGHT_MAX == 20
\* MAX_ADJUSTMENT * 0.5
MinorAdjustment == 1
\* 0.8 and 0.4 in tenths
HIGH_SUCCESS_THRESHOLD == 8
HIGH_FAIL_THRESHOLD == 4
\* caps isLowInnovation needs, and the innovate share in tenths
LowInnovationMin == 5
LowInnovationShare == 1

DEFAULT_WEIGHTS ==
    [frequency |-> Num(12), failReduce |-> Num(12), userBurden |-> Num(8), selfCost |-> Num(8)]

ClampWeight(weight) == MathMin(MathMax(weight, WEIGHT_MIN), WEIGHT_MAX)

\* a list argument: null, or an array
NullList == [isNull |-> TRUE, items |-> <<>>]
List(items) == [isNull |-> FALSE, items |-> items]
\* list || []
OrEmpty(list) == IF list.isNull THEN <<>> ELSE list.items

\* c.metrics && c.metrics.validation_passed
ValidationPassed(c) == c.metrics.kind = "object" /\ c.metrics.validation_passed

PassedCount(caps) == Cardinality({i \in DOMAIN caps : ValidationPassed(caps[i])})

\* computeSuccessRate(capsules) > tenths / 10
SuccessRateAbove(caps, tenths) ==
    IF Len(caps) = 0 THEN 10 > tenths
    ELSE PassedCount(caps) * 10 > tenths * Len(caps)

\* 1 - computeSuccessRate(capsules) > tenths / 10
FailRateAbove(caps, tenths) ==
    IF Len(caps) = 0 THEN 0 > tenths
    ELSE (Len(caps) - PassedCount(caps)) * 10 > tenths * Len(caps)

IsLowInnovation(caps) ==
    IF Len(caps) < LowInnovationMin THEN FALSE
    ELSE Cardinality({i \in DOMAIN caps : caps[i].mutation_category = "innovate"}) * 10
            < LowInnovationShare * Len(caps)

HasCapabilityGrowth(evts) ==
    \E i \in DOMAIN evts : evts[i].event_type = "capability_grown"

\* what the four rules add to each weight, in quarters
AdjustmentsPenalising(caps, evts) ==
    LET rule1 == SuccessRateAbove(caps, HIGH_SUCCESS_THRESHOLD) /\ IsLowInnovation(caps)
        rule2 == FailRateAbove(caps, HIGH_FAIL_THRESHOLD)
        rule3 == HasCapabilityGrowth(evts)
        rule4 == SuccessRateAbove(caps, HIGH_SUCCESS_THRESHOLD) /\ ~HasCapabilityGrowth(evts)
    IN  [frequency |-> IF rule1 THEN MAX_ADJUSTMENT ELSE 0,
         failReduce |-> (IF rule1 THEN 0 - MAX_ADJUSTMENT ELSE 0)
                        - (IF rule2 THEN MAX_ADJUSTMENT ELSE 0),
         userBurden |-> IF rule3 THEN MinorAdjustment ELSE 0,
         selfCost |-> IF rule4 THEN MinorAdjustment ELSE 0]

Adjustments(caps, evts) ==
    LET rule1 == SuccessRateAbove(caps, HIGH_SUCCESS_THRESHOLD) /\ IsLowInnovation(caps)
        rule2 == FailRateAbove(caps, HIGH_FAIL_THRESHOLD)
        rule3 == HasCapabilityGrowth(evts)
        rule4 == SuccessRateAbove(caps, HIGH_SUCCESS_THRESHOLD) /\ ~HasCapabilityGrowth(evts)
    IN  [frequency |-> IF rule1 THEN MAX_ADJUSTMENT ELSE 0,
         failReduce |-> (IF rule1 THEN 0 - MAX_ADJUSTMENT ELSE 0)
                        + (IF rule2 THEN MAX_ADJUSTMENT ELSE 0),
         userBurden |-> IF rule3 THEN MinorAdjustment ELSE 0,
         selfCost |-> IF rule4 THEN MinorAdjustment ELSE 0]

MutateWeights(currentWeights, recentCapsules, recentEvents) ==
    [k \in {"frequency", "failReduce", "userBurden", "selfCost"} |->
        ClampWeight(PlusQuarters(currentWeights[k],
                                 Adjustments(OrEmpty(recentCapsules), OrEmpty(recentEvents))[k]))]

\* n capsules of which the first `passed` passed validation and the first
\* `innovate` are innovate mutations; the last one has no metrics when bare
CapsuleList(n, passed, innovate, bare) ==
    [i \in 1..n |->
        [metrics |-> IF bare /\ i = n THEN [kind |-> "missing"]
                     ELSE [kind |-> "object", validation_passed |-> i <= passed],
         mutation_category |-> IF i <= innovate THEN "innovate" ELSE "repair"]]

CapsuleSamples ==
    {NullList, List(<<>>)}
    \cup {List(CapsuleList(5, p, 0, FALSE)) : p \in {0, 3, 4, 5}}
    \cup {List(CapsuleList(5, 5, 1, FALSE)), List(CapsuleList(5, 5, 0, TRUE)),
          List(CapsuleList(4, 4, 0, FALSE)),
          List(CapsuleList(10, 9, 0, FALSE)), List(CapsuleList(10, 10, 1, FALSE))}

EventSamples ==
    {NullList, List(<<>>), List(<<[event_type |-> "capability_grown"]>>),
     List(<<[event_type |-> "mutation_applied"], [event_type |-> "capability_grown"]>>),
     List(<<[event_type |-> "mutation_applied"]>>)}

\* weights a caller passes: inside [1, 5], on its ends, outside it, and not a number
WeightSampleValues == {NaN, Num(0), Num(4), Num(5), Num(19), Num(20), Num(40)}

\* most rounds that feed the returned weights back in
MaxRounds == 2

MutatorInit ==
    /\ \E f, r, u, s \in WeightSampleValues, cs \in CapsuleSamples, es \in EventSamples :
          call = [fn |-> "mutateWeights", round |-> 1,
                  currentWeights |->
                     [frequency |-> f, failReduce |-> r, userBurden |-> u, selfCost |-> s],
                  recentCapsules |-> cs, recentEvents |-> es]
    /\ ret = NotReturned

CallMutateWeights ==
    /\ call.fn = "mutateWeights"
    /\ ~ret.returned
    /\ ret' = [returned |-> TRUE,
               value |-> MutateWeights(call.currentWeights, call.recentCapsules,
                                       call.recentEvents)]
    /\ UNCHANGED <<call, NotCall>>

\* the next adjustment round starts from the weights the last one returned
NextRound ==
    /\ call.fn = "mutateWeights"
    /\ ret.returned
    /\ call.round < MaxRounds
    /\ \E cs \in CapsuleSamples, es \in EventSamples :
          call' = [fn |-> "mutateWeights", round |-> call.round + 1,
                   currentWeights |-> ret.value,
                   recentCapsules |-> cs, recentEvents |-> es]
    /\ ret' = NotReturned
    /\ UNCHANGED NotCall

MutatorNext == CallMutateWeights \/ NextRound

(***************************************************************************)
(* The V-score (vfm/scorer). The sub-scores are held in eighths and the    *)
(* weights in quarters, so a weighted sub-score is a number of 1/32. The   *)
(* capabilities, capsules and genes sampled make every sub-score a whole   *)
(* number of eighths, which doubles hold exactly; the final division, the  *)
(* multiplication by 100 and Math.round are computed on doubles.           *)
(***************************************************************************)
\* the highest sub-score, 10, in eighths
SubScoreMax == 80

RECURSIVE Log2Exact(_)
\* Math.log2(n) for a power of two n
Log2Exact(n) == IF n <= 1 THEN 0 ELSE 1 + Log2Exact(n \div 2)

\* scoreFrequency: Math.min(Math.log2(count + 1), 10)
ScoreFrequency(capability) ==
    IF 8 * Log2Exact(capability.trigger_count + 1) < SubScoreMax
    THEN 8 * Log2Exact(capability.trigger_count + 1)
    ELSE SubScoreMax

\* the capsules produced by a gene the capability is linked to
RelatedCapsules(capability, caps) ==
    {i \in DOMAIN caps : \E j \in DOMAIN capability.linked_genes :
                            capability.linked_genes[j] = caps[i].gene_id}

\* scoreFailReduction: 0 without related capsules, or successRate * 10
ScoreFailReduction(capability, caps) ==
    IF RelatedCapsules(capability, caps) = {} THEN 0
    ELSE (Cardinality({i \in RelatedCapsules(capability, caps) : ValidationPassed(caps[i])})
            * SubScoreMax) \div Cardinality(RelatedCapsules(capability, caps))

\* scoreUserBurden: Math.min(Math.min(skills * 2, 6) + Math.max(4 - preconditions, 0), 10)
ScoreUserBurden(capability) ==
    LET skills == IF 2 * Len(capability.linked_skills) < 6
                  THEN 2 * Len(capability.linked_skills) ELSE 6
        entry == IF 4 - Len(capability.preconditions) > 0
                 THEN 4 - Len(capability.preconditions) ELSE 0
    IN  IF skills + entry < 10 THEN 8 * (skills + entry) ELSE SubScoreMax

\* gene.constraints.max_files of a gene that names none
DefaultMaxFiles == 12

\* (gene.constraints && gene.constraints.max_files) || 12
MaxFilesOf(gene) ==
    IF gene.constraints.kind = "object" /\ gene.constraints.max_files # 0
    THEN gene.constraints.max_files ELSE DefaultMaxFiles

\* geneMap[geneId]: the last stored gene of that id, if any
ResolvedGenes(capability, store) ==
    {j \in DOMAIN capability.linked_genes :
        \E g \in DOMAIN store : store[g].id = capability.linked_genes[j]}

LastWithId(store, id) ==
    store[CHOOSE g \in DOMAIN store :
            store[g].id = id /\ \A h \in DOMAIN store : store[h].id = id => h <= g]

\* what a resolved gene adds to totalSteps or to totalMaxFiles
AmountOf(total, gene) == IF total = "steps" THEN Len(gene.strategy) ELSE MaxFilesOf(gene)

RECURSIVE SumOver(_, _, _, _)
\* totalSteps or totalMaxFiles over the first n linked genes
SumOver(total, linked, store, n) ==
    IF n = 0 THEN 0
    ELSE (IF \E g \in DOMAIN store : store[g].id = linked[n]
          THEN AmountOf(total, LastWithId(store, linked[n])) ELSE 0)
         + SumOver(total, linked, store, n - 1)

\* the score of a capability without resolved genes, 5, in eighths
NoGeneScore == 40

\* scoreSelfCost: loadGenes(), then the average strategy length and
\* max_files of the linked genes that are stored
ScoreSelfCost(capability, store) ==
    LET geneCount == Cardinality(ResolvedGenes(capability, store))
        totalSteps == SumOver("steps", capability.linked_genes, store, Len(capability.linked_genes))
        totalMaxFiles == SumOver("files", capability.linked_genes, store, Len(capability.linked_genes))
        stepScore == IF SubScoreMax - (8 * totalSteps) \div geneCount > 0
                     THEN SubScoreMax - (8 * totalSteps) \div geneCount ELSE 0
        fileScore == IF SubScoreMax - (4 * totalMaxFiles) \div geneCount > 0
                     THEN SubScoreMax - (4 * totalMaxFiles) \div geneCount ELSE 0
    IN  IF geneCount = 0 THEN NoGeneScore
        ELSE IF (stepScore + fileScore) \div 2 < SubScoreMax
        THEN (stepScore + fileScore) \div 2 ELSE SubScoreMax

\* the double nearest to 0.sum * 2^e, where sum may start with one zero
RoundSum(e, sum) ==
    IF sum[1] = 1 THEN RoundToDouble(e, sum, FALSE)
    ELSE RoundToDouble(e - 1, Tail(sum), FALSE)

\* a * 100: a * 64 + a * 32 + a * 4, rounded once
Times100(a) ==
    IF a.zero THEN Zero
    ELSE CHOOSE r \in
            {RoundSum(a.e + 7, sum) :
                sum \in {AddBits(part, Zeros(5) \o a.m \o Zeros(2),
                                 SignificandBits + 7, 0, <<>>) :
                            part \in {AddBits(<<0>> \o a.m \o Zeros(6),
                                              <<0, 0>> \o a.m \o Zeros(5),
                                              SignificandBits + 7, 0, <<>>)}}} : TRUE

RECURSIVE BitsToInt(_, _)
\* the integer the first n bits spell
BitsToInt(bits, n) == IF n = 0 THEN 0 ELSE 2 * BitsToInt(bits, n - 1) + bits[n]

\* the top of the score range, and the exponent of a double in [64, 128)
ScoreMax == 100
ScoreMaxExponent == 7

\* Math.round(Math.min(a, 100)) for a double a >= 0
RoundedScore(a) ==
    IF a.zero \/ a.e < 0 THEN 0
    ELSE IF a.e > ScoreMaxExponent THEN ScoreMax
    ELSE IF BitsToInt(a.m, a.e) >= ScoreMax THEN ScoreMax
    ELSE BitsToInt(a.m, a.e) + a.m[a.e + 1]

NotANumber == [nan |-> TRUE, score |-> 0]
Score(n) == [nan |-> FALSE, score |-> n]

\* weights || { frequency: 3, failReduce: 3, userBurden: 2, selfCost: 2 }
WeightsOrDefault(weights) == IF weights.kind = "object" THEN weights.value ELSE DEFAULT_WEIGHTS

\* computeVScore: rawScore / maxScore * 100, clamped to [0, 100] and rounded;
\* raw and max are in 1/32
ComputeVScoreOf(raw, max) ==
    IF max = 0 THEN (IF raw = 0 THEN NotANumber
                     ELSE IF raw > 0 THEN Score(ScoreMax) ELSE Score(0))
    ELSE IF raw = 0 \/ (raw > 0) # (max > 0) THEN Score(0)
    ELSE Score(RoundedScore(Times100(Divide(IF raw > 0 THEN raw ELSE 0 - raw,
                                            IF max > 0 THEN max ELSE 0 - max))))

ComputeVScore(capability, context, weights, store) ==
    LET w == WeightsOrDefault(weights)
        caps == IF context.kind = "object" THEN OrEmpty(context.capsules) ELSE <<>>
    IN  IF \E k \in DOMAIN w : w[k].nan THEN NotANumber
        ELSE ComputeVScoreOf(
                ScoreFrequency(capability) * w.frequency.q
                  + ScoreFailReduction(capability, caps) * w.failReduce.q
                  + ScoreUserBurden(capability) * w.userBurden.q
                  + ScoreSelfCost(capability, store) * w.selfCost.q,
                SubScoreMax * (w.frequency.q + w.failReduce.q + w.userBurden.q + w.selfCost.q))

\* the stored genes the scorer reads: their id, strategy and constraints
ScorerGene(id, steps, constraints) ==
    [id |-> id, strategy |-> [i \in 1..steps |-> "step"], constraints |-> constraints]

ScorerStores ==
    { <<>>,
      <<ScorerGene("gene_a", 1, [kind |-> "object", max_files |-> 4]),
        ScorerGene("gene_b", 4, [kind |-> "missing"])>>,
      <<ScorerGene("gene_a", 12, [kind |-> "object", max_files |-> 30]),
        ScorerGene("gene_b", 2, [kind |-> "object", max_files |-> 0])>> }

\* trigger counts one below a power of two, whose logarithm is exact
TriggerSamples == {0, 1, 7, 1023, 4095}

CapabilitySamples ==
    {[trigger_count |-> t, linked_genes |-> g,
      linked_skills |-> [i \in 1..s |-> "skill"], preconditions |-> [i \in 1..p |-> "pre"]] :
        t \in TriggerSamples,
        g \in {<<>>, <<"gene_a">>, <<"gene_a", "gene_b">>, <<"gene_x">>},
        s \in {0, 1, 4}, p \in {0, 2, 5}}

ScorerCapsule(gene, passed) ==
    [gene_id |-> gene, metrics |-> [kind |-> "object", validation_passed |-> passed],
     mutation_category |-> "repair"]

ContextSamples ==
    {[kind |-> "null"], [kind |-> "object", capsules |-> NullList],
     [kind |-> "object", capsules |-> List(<<ScorerCapsule("gene_a", TRUE)>>)],
     [kind |-> "object",
      capsules |-> List(<<ScorerCapsule("gene_a", TRUE), ScorerCapsule("gene_b", FALSE),
                          ScorerCapsule("gene_z", FALSE)>>)],
     [kind |-> "object",
      capsules |-> List(<<ScorerCapsule("gene_a", FALSE), ScorerCapsule("gene_a", FALSE)>>)]}

Weights(f, r, u, s) ==
    [kind |-> "object",
     value |-> [frequency |-> f, failReduce |-> r, userBurden |-> u, selfCost |-> s]]

\* weight vectors: none given, the ends of [1, 5], all zero, one weight
\* only, one weight not a number, negative ones
WeightVectors ==
    {[kind |-> "undefined"],
     Weights(Num(WEIGHT_MIN), Num(WEIGHT_MIN), Num(WEIGHT_MIN), Num(WEIGHT_MIN)),
     Weights(Num(WEIGHT_MAX), Num(WEIGHT_MIN), Num(WEIGHT_MAX), Num(5)),
     Weights(Num(0), Num(0), Num(0), Num(0)),
     Weights(Num(0), Num(0), Num(0), Num(WEIGHT_MIN)),
     Weights(Num(12), NaN, Num(8), Num(8)),
     Weights(Num(0 - 4), Num(0 - 4), Num(0 - 4), Num(0 - 4)),
     Weights(Num(4), Num(0), Num(0 - 8), Num(4))}

\* the scores isWorthEvolving is asked about
ScoreSamples == 0..ScoreMax

ScorerInit ==
    /\ call \in {[fn |-> "computeVScore", capability |-> c, context |-> x,
                  weights |-> w, store |-> g] :
                    c \in CapabilitySamples, x \in ContextSamples, w \in WeightVectors,
                    g \in ScorerStores}
               \cup {[fn |-> "isWorthEvolving", score |-> s] : s \in ScoreSamples}
    /\ ret = NotReturned

CallComputeVScore ==
    /\ call.fn = "computeVScore"
    /\ ~ret.returned
    /\ ret' = [returned |-> TRUE,
               value |-> ComputeVScore(call.capability, call.context, call.weights, call.store)]
    /\ UNCHANGED <<call, NotCall>>

CallIsWorthEvolving ==
    /\ call.fn = "isWorthEvolving"
    /\ ~ret.returned
    /\ ret' = [returned |-> TRUE, value |-> IsWorthEvolving(call.score)]
    /\ UNCHANGED <<call, NotCall>>

ScorerNext == CallComputeVScore \/ CallIsWorthEvolving

(***************************************************************************)
(* Asset files (gep/store). The text of a file is a sequence of tokens:    *)
(* brackets, braces, commas and line ends, and one token for the members   *)
(* of an object. A partially written file holds a prefix of the tokens     *)
(* that were to be written.                                                *)
(***************************************************************************)
Tok(t) == [t |-> t]
MembersOf(obj) == [t |-> "members", v |-> obj]

LineEnd == Tok("\n")

\* a JSON value: an object, or an array of objects; an array may carry
\* named properties besides its elements
JsonObject(obj) == [kind |-> "object", value |-> obj]
JsonArray(items) == [kind |-> "array", items |-> items]

ObjectText(obj) == <<Tok("{"), MembersOf(obj), Tok("}")>>

RECURSIVE ElementsText(_, _)
\* the first n elements, separated by commas
ElementsText(items, n) ==
    IF n = 0 THEN <<>>
    ELSE IF n = 1 THEN ObjectText(items[1])
    ELSE ElementsText(items, n - 1) \o <<Tok(",")>> \o ObjectText(items[n])

\* JSON.stringify(value): the named properties of an array are not written
JSONStringify(value) ==
    IF value.kind = "object" THEN ObjectText(value.value)
    ELSE <<Tok("[")>> \o ElementsText(value.items, Len(value.items)) \o <<Tok("]")>>

IsObjectText(text) ==
    /\ Len(text) = 3
    /\ text[1] = Tok("{")
    /\ text[2].t = "members"
    /\ text[3] = Tok("}")

\* the text between the brackets: objects separated by commas
IsElementsText(text) ==
    \/ text = <<>>
    \/ /\ Len(text) % 4 = 3
       /\ \A i \in DOMAIN text :
             CASE i % 4 = 1 -> text[i] = Tok("{")
               [] i % 4 = 2 -> text[i].t = "members"
               [] i % 4 = 3 -> text[i] = Tok("}")
               [] OTHER -> text[i] = Tok(",")

\* JSON.parse(text): the value, or a SyntaxError
JSONParse(text) ==
    IF IsObjectText(text) THEN [thrown |-> FALSE, value |-> JsonObject(text[2].v)]
    ELSE IF /\ Len(text) >= 2
            /\ text[1] = Tok("[")
            /\ text[Len(text)] = Tok("]")
            /\ IsElementsText(SubSeq(text, 2, Len(text) - 1))
    THEN [thrown |-> FALSE,
          value |-> JsonArray([k \in 1..(Len(text) \div 4) |-> text[4 * k - 1].v])]
    ELSE [thrown |-> TRUE]

\* String.prototype.trim on a text: line ends at either end are dropped
TrimText(text) ==
    LET keep == {i \in DOMAIN text : text[i] # LineEnd}
    IN  IF keep = {} THEN <<>>
        ELSE SubSeq(text, CHOOSE i \in keep : \A j \in keep : i <= j,
                          CHOOSE i \in keep : \A j \in keep : i >= j)

\* a file: absent, or its text
NoFile == [exists |-> FALSE, text |-> <<>>]
FileOf(text) == [exists |-> TRUE, text |-> text]

\* readJSON(filename) for a filename that ends in .json
ReadJSON(file) ==
    IF ~file.exists \/ TrimText(file.text) = <<>>
    THEN [thrown |-> FALSE, value |-> JsonArray(<<>>)]
    ELSE JSONParse(TrimText(file.text))

\* writeJSON: JSON.stringify(data, null, 2) + '\n'
WriteJSON(data) == FileOf(JSONStringify(data) \o <<LineEnd>>)

RECURSIVE SplitLines(_, _, _)
\* raw.split('\n').filter(Boolean): the non-empty lines of the text
SplitLines(text, line, lines) ==
    IF text = <<>> THEN (IF line = <<>> THEN lines ELSE Append(lines, line))
    ELSE IF Head(text) = LineEnd
    THEN SplitLines(Tail(text), <<>>, IF line = <<>> THEN lines ELSE Append(lines, line))
    ELSE SplitLines(Tail(text), Append(line, Head(text)), lines)

\* readJSONL(filename): JSON.parse of every line
ReadJSONL(file) ==
    IF ~file.exists \/ TrimText(file.text) = <<>>
    THEN [thrown |-> FALSE, value |-> <<>>]
    ELSE LET lines == SplitLines(TrimText(file.text), <<>>, <<>>)
         IN  IF \E i \in DOMAIN lines : JSONParse(lines[i]).thrown
             THEN [thrown |-> TRUE]
             ELSE [thrown |-> FALSE,
                   value |-> [i \in DOMAIN lines |-> JSONParse(lines[i]).value]]

\* appendJSONL that writes the file anew
AppendJSONLTruncating(file, record) == FileOf(ObjectText(record) \o <<LineEnd>>)

\* appendJSONL: the text after JSON.stringify(record) + '\n' is appended
AppendJSONL(file, record) == FileOf(file.text \o ObjectText(record) \o <<LineEnd>>)

\* the loaders and the reader each of them uses
Loaders ==
    [loadGenes |-> "readJSON", loadCapsules |-> "readJSON",
     loadCapabilityTree |-> "readJSON", loadEvents |-> "readJSONL"]

\* most tokens of a stored text that a partial write may have left
MaxStored == 2

\* the objects a file holds
StoredObjects == {[id |-> "a"], [id |-> "b"]}

RECURSIVE ObjectLists(_)
ObjectLists(n) ==
    IF n = 0 THEN {<<>>}
    ELSE ObjectLists(n - 1)
         \cup {Append(l, o) : l \in {k \in ObjectLists(n - 1) : Len(k) = n - 1},
                              o \in StoredObjects}

\* every non-empty prefix of a text
Prefixes(text) == {SubSeq(text, 1, n) : n \in 1..Len(text)}

\* what a .json file holds: nothing, an empty text, an array or an object
\* written in full, or the beginning of one
JsonFiles ==
    {NoFile, FileOf(<<>>), FileOf(<<LineEnd>>)}
    \cup UNION {{FileOf(p) : p \in Prefixes(WriteJSON(JsonArray(l)).text)} :
                    l \in ObjectLists(MaxStored)}
    \cup UNION {{FileOf(p) : p \in Prefixes(WriteJSON(JsonObject(o)).text)} :
                    o \in StoredObjects}

RECURSIVE LinesText(_, _)
LinesText(items, n) ==
    IF n = 0 THEN <<>> ELSE LinesText(items, n - 1) \o ObjectText(items[n]) \o <<LineEnd>>

\* what events.jsonl holds: nothing, or whole lines and the beginning of one
JsonlFiles ==
    {NoFile, FileOf(<<>>)}
    \cup UNION {{FileOf(p) : p \in Prefixes(LinesText(l, Len(l)))} :
                    l \in ObjectLists(MaxStored) \ {<<>>}}

StoreInit ==
    /\ call \in {[fn |-> f, file |-> x] :
                    f \in {"loadGenes", "loadCapsules", "loadCapabilityTree"}, x \in JsonFiles}
               \cup {[fn |-> "loadEvents", file |-> x] : x \in JsonlFiles}
    /\ ret = NotReturned

\* loadGenes(), loadCapsules(), loadCapabilityTree() or loadEvents() is called
CallLoad ==
    /\ call.fn \in DOMAIN Loaders
    /\ ~ret.returned
    /\ \E r \in {IF Loaders[call.fn] = "readJSON" THEN ReadJSON(call.file)
                 ELSE ReadJSONL(call.file)} :
          ret' = IF r.thrown THEN [returned |-> TRUE, thrown |-> TRUE]
                 ELSE [returned |-> TRUE, thrown |-> FALSE, value |-> r.value]
    /\ UNCHANGED <<call, NotCall>>

(***************************************************************************)
(* Rollback (adl/rollback). A path is the sequence of its names and        *)
(* separators; the names sampled hold no separator, so startsWith,         *)
(* endsWith and equality of paths are those of the sequences.              *)
(***************************************************************************)
PROTECTED_PATHS ==
    << <<"package.json">>, <<"SKILL.md">>, <<"assets", "/">>, <<".git", "/">>,
       <<"node_modules", "/">> >>

StartsWith(str, prefix) == Len(str) >= Len(prefix) /\ SubSeq(str, 1, Len(prefix)) = prefix

EndsWith(str, suffix) ==
    Len(str) >= Len(suffix) /\ SubSeq(str, Len(str) - Len(suffix) + 1, Len(str)) = suffix

\* filePath.replace(/\\/g, '/')
SlashesOnly(path) == [i \in DOMAIN path |-> IF path[i] = "\\" THEN "/" ELSE path[i]]

\* the test isProtected makes of one protected path
MatchesProtected(normalized, protectedPath) ==
    IF protectedPath[Len(protectedPath)] = "/"
    THEN \/ StartsWith(normalized, protectedPath)
         \/ StartsWith(normalized, <<".", "/">> \o protectedPath)
    ELSE \/ normalized = protectedPath
         \/ normalized = <<".", "/">> \o protectedPath
         \/ EndsWith(normalized, <<"/">> \o protectedPath)

\* a file of the lists: a string, or a value that is none
PathOf(path) == [kind |-> "string", path |-> path]
NotAPath == [kind |-> "number", path |-> <<>>]

IsProtected(file) ==
    /\ file.kind = "string"
    /\ file.path # <<>>
    /\ \E k \in DOMAIN PROTECTED_PATHS :
          MatchesProtected(SlashesOnly(file.path), PROTECTED_PATHS[k])

RECURSIVE SplitPath(_, _, _)
\* the names of a path: the pieces between its `/` (a backslash is no
\* separator for path.resolve on the platform of the program)
SplitPath(path, name, names) ==
    IF path = <<>> THEN Append(names, name)
    ELSE IF Head(path) = "/" THEN SplitPath(Tail(path), <<>>, Append(names, name))
    ELSE SplitPath(Tail(path), Append(name, Head(path)), names)

RECURSIVE ResolveFrom(_, _)
\* path.resolve(workDir, file) for a relative file, as the names below
\* workDir: `.` and empty names are dropped, `..` takes the last name away
\* and stays where it leads above workDir
ResolveFrom(names, resolved) ==
    IF names = <<>> THEN resolved
    ELSE IF Head(names) \in {<<>>, <<".">>} THEN ResolveFrom(Tail(names), resolved)
    ELSE IF Head(names) = <<"..">> /\ resolved # <<>> /\ resolved[Len(resolved)] # <<"..">>
    THEN ResolveFrom(Tail(names), SubSeq(resolved, 1, Len(resolved) - 1))
    ELSE ResolveFrom(Tail(names), Append(resolved, Head(names)))

Resolve(path) == ResolveFrom(SplitPath(path, <<>>, <<>>), <<>>)

RECURSIVE RestoreFrom(_, _, _, _)
\* the loop over changedFiles: checkoutOk[i] tells whether git checkout of
\* file i returned; acc holds restored, errors and the attempts made
RestoreFrom(changedFiles, checkoutOk, i, acc) ==
    IF i > Len(changedFiles) THEN acc
    ELSE RestoreFrom(changedFiles, checkoutOk, i + 1,
            IF checkoutOk[i]
            THEN [acc EXCEPT !.restored = Append(@, changedFiles[i]),
                             !.attempts = Append(@, [op |-> "restore", index |-> i])]
            ELSE [acc EXCEPT !.errors = Append(@, [what |-> "restore", file |-> changedFiles[i]]),
                             !.attempts = Append(@, [op |-> "restore", index |-> i])])

RECURSIVE DeleteFrom(_, _, _)
\* the loop over newFiles: a protected file is skipped; fs.unlinkSync
\* removes the file when it is there and throws otherwise, and path.resolve
\* throws for a file that is no string
DeleteFrom(newFiles, i, acc) ==
    IF i > Len(newFiles) THEN acc
    ELSE DeleteFrom(newFiles, i + 1,
            IF IsProtected(newFiles[i])
            THEN [acc EXCEPT !.errors = Append(@, [what |-> "skip protected",
                                                   file |-> newFiles[i]])]
            ELSE IF newFiles[i].kind = "string" /\ Resolve(newFiles[i].path) \in acc.fs
            THEN [acc EXCEPT !.deleted = Append(@, newFiles[i]),
                             !.fs = @ \ {Resolve(newFiles[i].path)},
                             !.attempts = Append(@, [op |-> "delete", index |-> i])]
            ELSE [acc EXCEPT !.errors = Append(@, [what |-> "delete", file |-> newFiles[i]]),
                             !.attempts = Append(@, [op |-> "delete", index |-> i])])

\* rollback(workDir, changedFiles, newFiles) on the files fs of workDir
Rollback(changedFiles, newFiles, checkoutOk, fs) ==
    LET start == [restored |-> <<>>, deleted |-> <<>>, errors |-> <<>>, attempts |-> <<>>,
                  fs |-> fs]
        done == CHOOSE d \in {DeleteFrom(OrEmpty(newFiles), 1, r) :
                                r \in {RestoreFrom(OrEmpty(changedFiles), checkoutOk, 1, start)}} :
                       TRUE
    IN  [success |-> Len(done.errors) = 0, restored |-> done.restored,
         deleted |-> done.deleted, errors |-> done.errors,
         hasError |-> Len(done.errors) > 0, attempts |-> done.attempts, fs |-> done.fs]

\* files rollback is given
FileSamples ==
    {PathOf(<<"package.json">>), PathOf(<<".", "/", "package.json">>),
     PathOf(<<"src", "/", "package.json">>), PathOf(<<".git", "/", "config">>),
     PathOf(<<"assets", "\\", "genes.json">>), PathOf(<<"src", "/", "engine.js">>),
     PathOf(<<"src", "/", "..", "/", "package.json">>),
     PathOf(<<"src", "/", "..", "/", ".git", "/", "config">>),
     PathOf(<<".", "/", ".", "/", ".git", "/", "config">>), PathOf(<<>>), NotAPath}

\* most files in a list
MaxRollbackFiles == 2

FileLists == {NullList} \cup {List(l) : l \in UNION {[1..n -> FileSamples] : n \in 0..MaxRollbackFiles}}

ChangedSamples ==
    {NullList} \cup {List(l) : l \in UNION {[1..n -> {PathOf(<<"src", "/", "engine.js">>),
                                                       PathOf(<<"package.json">>)}] :
                                              n \in 0..MaxRollbackFiles}}

\* the files that may be there below workDir
Locations ==
    { << <<"package.json">> >>, << <<".git">>, <<"config">> >>,
      << <<"src">>, <<"engine.js">> >>, << <<"src">>, <<"package.json">> >> }

RollbackInit ==
    /\ call \in {[fn |-> "rollback", changedFiles |-> c, newFiles |-> n, checkoutOk |-> g,
                  fs |-> f] :
                    c \in ChangedSamples, n \in FileLists, g \in [1..MaxRollbackFiles -> BOOLEAN],
                    f \in {Locations, Locations \ {<< <<"src">>, <<"engine.js">> >>}}}
    /\ ret = NotReturned

\* rollback(workDir, changedFiles, newFiles) is called
CallRollback ==
    /\ call.fn = "rollback"
    /\ ~ret.returned
    /\ \E r \in {Rollback(call.changedFiles, call.newFiles, call.checkoutOk, call.fs)} :
          ret' = [returned |-> TRUE, thrown |-> FALSE, value |-> r]
    /\ UNCHANGED <<call, NotCall>>

(***************************************************************************)
(* The signal extractor (core/signals). Strings are sequences of           *)
(* characters; a character outside ASCII is written by its code point.     *)
(***************************************************************************)
Digits == {"0", "1", "2", "3", "4", "5", "6", "7", "8", "9"}
AsciiLetters ==
    UpperSet \cup {LowerLetters[i] : i \in DOMAIN LowerLetters}

\* the characters of 一-鿿 that the strings of the model hold
CJKChars == {"u529F", "u80FD", "u529B", "u6DFB", "u52A0"}

\* \w of a regular expression
IsWordChar(c) == c \in AsciiLetters \cup Digits \cup {"_"}

FEATURE_KEYWORDS ==
    << <<"f", "e", "a", "t", "u", "r", "e">>, <<"a", "b", "i", "l", "i", "t", "y">>,
       <<"a", "d", "d">>, <<"u529F", "u80FD">>, <<"u80FD", "u529B">>, <<"u6DFB", "u52A0">> >>

\* \b before character p of text (p = Len(text) + 1: at its end)
WordBoundary(text, p) ==
    (p > 1 /\ IsWordChar(text[p - 1])) # (p <= Len(text) /\ IsWordChar(text[p]))

\* FEATURE_KEYWORDS.test(text)
MatchesFeature(text) ==
    \E k \in DOMAIN FEATURE_KEYWORDS :
       \E p \in 1..(Len(text) - Len(FEATURE_KEYWORDS[k]) + 1) :
          /\ ToLowerCase(SubSeq(text, p, p + Len(FEATURE_KEYWORDS[k]) - 1)) = FEATURE_KEYWORDS[k]
          /\ WordBoundary(text, p)
          /\ WordBoundary(text, p + Len(FEATURE_KEYWORDS[k]))

\* a signal: a bare name, or a head, a colon and a string
Token(name) == [head |-> name, colon |-> FALSE, tail |-> <<>>]
TokenOf(head, tail) == [head |-> head, colon |-> TRUE, tail |-> tail]

\* values of a log entry: a string field that is missing or empty is <<>>,
\* a field compared with fixed words is that word or Undefined
NoContent == [kind |-> "none", text |-> <<>>, blocks |-> <<>>]
StringContent(text) == [kind |-> "string", text |-> text, blocks |-> <<>>]
ArrayContent(blocks) == [kind |-> "array", text |-> <<>>, blocks |-> blocks]
ContentBlock(type, name, text) == [type |-> type, name |-> name, text |-> text]

NoMessage ==
    [kind |-> "none", text |-> <<>>, role |-> Undefined, stopReason |-> Undefined,
     errorMessage |-> <<>>, content |-> NoContent]
StringMessage(text) == [NoMessage EXCEPT !.kind = "string", !.text = text]
MessageOf(role, stopReason, errorMessage, content) ==
    [kind |-> "object", text |-> <<>>, role |-> role, stopReason |-> stopReason,
     errorMessage |-> errorMessage, content |-> content]

EmptyEntry ==
    [type |-> Undefined, message |-> NoMessage, level |-> Undefined, detail |-> <<>>,
     tool_name |-> <<>>, status |-> Undefined, result |-> Undefined,
     mutation_applied |-> FALSE, solidify_failed |-> FALSE, name |-> <<>>,
     customType |-> Undefined, dataName |-> <<>>]

\* entry.message is truthy
HasMessage(entry) ==
    entry.message.kind = "object" \/ (entry.message.kind = "string" /\ entry.message.text # <<>>)

\* entry.message?.role === role
HasRole(entry, role) == entry.message.kind = "object" /\ entry.message.role = role

RECURSIVE JoinTexts(_)
\* texts.join(' ')
JoinTexts(texts) ==
    IF texts = <<>> THEN <<>>
    ELSE IF Len(texts) = 1 THEN texts[1]
    ELSE texts[1] \o <<" ">> \o JoinTexts(Tail(texts))

IsTextBlock(c) == c.type = "text" /\ c.text # <<>>

extractText(entry) ==
    IF entry.message.kind # "object" THEN <<>>
    ELSE IF entry.message.content.kind = "string" THEN entry.message.content.text
    ELSE IF entry.message.content.kind = "array"
    THEN LET blocks == SelectSeq(entry.message.content.blocks, IsTextBlock)
         IN  JoinTexts([i \in DOMAIN blocks |-> blocks[i].text])
    ELSE <<>>

\* the characters of the word a stopReason is
StopReasonText(stopReason) ==
    IF stopReason = "error" THEN <<"e", "r", "r", "o", "r">>
    ELSE IF stopReason = "stop" THEN <<"s", "t", "o", "p">>
    ELSE <<>>

DetailLimit == 80
NormalizedLimit == 50

\* the detail of an error message as it goes into errsig
NormalizedDetail(detail) ==
    LET shortDetail == IF Len(detail) > DetailLimit THEN SubSeq(detail, 1, DetailLimit)
                       ELSE detail
        replaced == [i \in DOMAIN shortDetail |->
                        IF IsWordChar(shortDetail[i]) \/ shortDetail[i] \in CJKChars
                        THEN shortDetail[i] ELSE "_"]
    IN  SubSeq(replaced, 1, Min(Len(replaced), NormalizedLimit))

\* message.stopReason === 'error' || message.errorMessage
IsErrorMessage(message) == message.stopReason = "error" \/ message.errorMessage # <<>>

\* the native format of an error
IsNativeError(entry) ==
    entry.type = "message" /\ HasMessage(entry) /\ entry.message.kind = "object"
    /\ IsErrorMessage(entry.message)

NativeDetail(entry) ==
    NormalizedDetail(IF entry.message.errorMessage # <<>> THEN entry.message.errorMessage
                     ELSE StopReasonText(entry.message.stopReason))

\* the simplified format of an error
IsSimpleError(entry) ==
    entry.level = "error" \/ (entry.type = "error" /\ ~HasMessage(entry))

\* the keys one entry counts in errorDetailCounts, in order
DetailKeys(entry) ==
    (IF IsNativeError(entry) /\ NativeDetail(entry) # <<>> THEN <<NativeDetail(entry)>> ELSE <<>>)
    \o (IF IsSimpleError(entry) /\ entry.detail # <<>> THEN <<entry.detail>> ELSE <<>>)

\* what the first loop adds for one entry, in order
ErrorAddsOf(entry) ==
    (IF IsNativeError(entry)
     THEN <<Token("log_error")>>
          \o (IF NativeDetail(entry) # <<>> THEN <<TokenOf("errsig", NativeDetail(entry))>>
              ELSE <<>>)
     ELSE <<>>)
    \o (IF IsSimpleError(entry)
        THEN <<Token("log_error")>>
             \o (IF entry.detail # <<>> THEN <<TokenOf("errsig", entry.detail)>> ELSE <<>>)
        ELSE <<>>)

\* what the loop over the user's requests adds for one entry
FeatureAddsOf(entry) ==
    (IF entry.type = "message" /\ HasRole(entry, "user") /\ MatchesFeature(extractText(entry))
     THEN <<Token("user_feature_request")>> ELSE <<>>)
    \o (IF entry.type = "user_request" /\ entry.message.kind = "string"
           /\ MatchesFeature(entry.message.text)
        THEN <<Token("user_feature_request")>> ELSE <<>>)

IsToolUse(block) == block.type = "tool_use" /\ block.name # <<>>

\* the tool names one entry counts, and pushes to toolSequence
ToolsOf(entry) ==
    (IF entry.type = "message" /\ HasRole(entry, "assistant")
        /\ entry.message.content.kind = "array"
     THEN LET uses == SelectSeq(entry.message.content.blocks, IsToolUse)
          IN  [i \in DOMAIN uses |-> uses[i].name]
     ELSE <<>>)
    \o (IF entry.tool_name # <<>> THEN <<entry.tool_name>> ELSE <<>>)

\* what the last loop adds for one entry
CapabilityAddsOf(entry) ==
    (IF entry.type = "capability_mention" /\ entry.name # <<>>
     THEN <<TokenOf("capability_candidate", entry.name)>> ELSE <<>>)
    \o (IF entry.type = "custom" /\ entry.customType = "capability_mention"
           /\ entry.dataName # <<>>
        THEN <<TokenOf("capability_candidate", entry.dataName)>> ELSE <<>>)

RECURSIVE ErrorAdds(_)
ErrorAdds(entries) ==
    IF entries = <<>> THEN <<>> ELSE ErrorAddsOf(Head(entries)) \o ErrorAdds(Tail(entries))

RECURSIVE AllDetailKeys(_)
AllDetailKeys(entries) ==
    IF entries = <<>> THEN <<>> ELSE DetailKeys(Head(entries)) \o AllDetailKeys(Tail(entries))

RECURSIVE FeatureAdds(_)
FeatureAdds(entries) ==
    IF entries = <<>> THEN <<>> ELSE FeatureAddsOf(Head(entries)) \o FeatureAdds(Tail(entries))

RECURSIVE ToolSequence(_)
ToolSequence(entries) ==
    IF entries = <<>> THEN <<>> ELSE ToolsOf(Head(entries)) \o ToolSequence(Tail(entries))

RECURSIVE CapabilityAdds(_)
CapabilityAdds(entries) ==
    IF entries = <<>> THEN <<>>
    ELSE CapabilityAddsOf(Head(entries)) \o CapabilityAdds(Tail(entries))

\* signals.add(signal) that keeps a signal it already holds a second time
SetAddAgain(signals, signal) == Append(signals, signal)

\* signals.add(signal): a Set, held in the order of insertion
SetAdd(signals, signal) ==
    IF \E i \in DOMAIN signals : signals[i] = signal THEN signals ELSE Append(signals, signal)

RECURSIVE AddAll(_, _)
AddAll(signals, adds) ==
    IF adds = <<>> THEN signals ELSE AddAll(SetAdd(signals, Head(adds)), Tail(adds))

RecurringThreshold == 3
PlateauWindow == 10
HighToolUsage == 5
RepeatedToolUsage == 3
RepairLoopThreshold == 3
StagnationMessages == 5

\* a count of a Map: the times the key was counted
CountOf(keys, key) == Cardinality({i \in DOMAIN keys : keys[i] = key})

\* toolCounts.get(tool) counted over the last HighToolUsage uses only
ToolCountRecent(toolSequence, tool) ==
    CountOf(JsSlice(toolSequence, 0 - HighToolUsage, Len(toolSequence)), tool)

\* toolCounts.get(tool)
ToolCount(toolSequence, tool) == CountOf(toolSequence, tool)

IsAssistantMessage(e) == e.type = "message" /\ HasRole(e, "assistant")

\* e.message?.stopReason !== 'error' && !e.message?.errorMessage
LacksError(e) == ~(e.message.kind = "object" /\ IsErrorMessage(e.message))

StatusSuccess(e) == e.status = "success" \/ e.result = "success"

\* the keys of toolCounts in the order of their insertion, each with the
\* signal of a tool used often
HighUsageAdds(toolSequence) ==
    LET first == SelectSeq([i \in DOMAIN toolSequence |-> i],
                           LAMBDA i : \A j \in 1..(i - 1) : toolSequence[j] # toolSequence[i])
        often == SelectSeq(first,
                           LAMBDA i : ToolCount(toolSequence, toolSequence[i]) >= HighToolUsage)
    IN  [k \in DOMAIN often |-> TokenOf("high_tool_usage", toolSequence[often[k]])]

RECURSIVE RepeatedAdds(_, _, _)
\* the loop over toolSequence from index i on (counted from 1), repeatCount
\* being the length of the run that ends before i
RepeatedAdds(toolSequence, i, repeatCount) ==
    IF i > Len(toolSequence) THEN <<>>
    ELSE IF toolSequence[i] = toolSequence[i - 1]
    THEN (IF repeatCount + 1 >= RepeatedToolUsage
          THEN <<TokenOf("repeated_tool_usage", toolSequence[i])>> ELSE <<>>)
         \o RepeatedAdds(toolSequence, i + 1, repeatCount + 1)
    ELSE RepeatedAdds(toolSequence, i + 1, 1)

\* extractSignals(entries): entries an array, or a value that is none
ExtractSignalsFrom(entries) ==
    IF entries.isNull \/ Len(entries.items) = 0 THEN <<>>
    ELSE LET e == entries.items
             keys == AllDetailKeys(e)
             assistantMsgs == SelectSeq(e, IsAssistantMessage)
             recentMsgs == JsSlice(assistantMsgs, 0 - PlateauWindow, Len(assistantMsgs))
             recent10 == JsSlice(e, 0 - PlateauWindow, Len(e))
             toolSequence == ToolSequence(e)
             s1 == AddAll(<<>>, ErrorAdds(e))
             s2 == IF \E i \in DOMAIN keys : CountOf(keys, keys[i]) >= RecurringThreshold
                   THEN SetAdd(s1, Token("recurring_error")) ELSE s1
             s3 == AddAll(s2, FeatureAdds(e))
             s4 == IF Len(assistantMsgs) >= PlateauWindow
                      /\ \A i \in DOMAIN recentMsgs : LacksError(recentMsgs[i])
                   THEN SetAdd(s3, Token("stable_success_plateau")) ELSE s3
             s5 == IF Len(e) >= PlateauWindow
                      /\ (\A i \in DOMAIN recent10 : StatusSuccess(recent10[i]))
                      /\ ~\E i \in DOMAIN s4 : s4[i] = Token("stable_success_plateau")
                   THEN SetAdd(s4, Token("stable_success_plateau")) ELSE s4
             s6 == AddAll(s5, HighUsageAdds(toolSequence))
             s7 == AddAll(s6, RepeatedAdds(toolSequence, 2, 1))
             s8 == IF Cardinality({i \in DOMAIN e : e[i].mutation_applied /\ e[i].solidify_failed})
                        >= RepairLoopThreshold
                   THEN SetAdd(s7, Token("repair_loop_detected")) ELSE s7
             s9 == IF Len(assistantMsgs) >= StagnationMessages
                      /\ \A i \in DOMAIN assistantMsgs : ~LacksError(assistantMsgs[i])
                   THEN SetAdd(SetAdd(s8, Token("recurring_error")), Token("evolution_stagnation"))
                   ELSE s8
         IN  AddAll(s9, CapabilityAdds(e))

\* entries of a session log
OkMessage ==
    [EmptyEntry EXCEPT !.type = "message",
                       !.message = MessageOf("assistant", "stop", <<>>, StringContent(<<"o", "k">>))]
ErrorMessage ==
    [EmptyEntry EXCEPT !.type = "message",
                       !.message = MessageOf("assistant", "error", <<>>, NoContent)]
DetailMessage ==
    [EmptyEntry EXCEPT !.type = "message",
                       !.message = MessageOf("assistant", "stop", <<"a", " ", "b">>, NoContent)]
SimpleError == [EmptyEntry EXCEPT !.level = "error", !.detail = <<"a", "_", "b">>]
ToolEntry(tool) == [EmptyEntry EXCEPT !.tool_name = <<tool>>]
ToolMessage ==
    [EmptyEntry EXCEPT !.type = "message",
                       !.message = MessageOf("assistant", "stop", <<>>,
                                      ArrayContent(<<ContentBlock("tool_use", <<"r">>, <<>>),
                                                     ContentBlock("text", <<>>, <<"o", "k">>)>>))]
UserAdd ==
    [EmptyEntry EXCEPT !.type = "message",
                       !.message = MessageOf("user", Undefined, <<>>,
                                      ArrayContent(<<ContentBlock("text", <<>>, <<"A", "d", "d">>),
                                                     ContentBlock("text", <<>>, <<"i", "t">>)>>))]
UserRequest ==
    [EmptyEntry EXCEPT !.type = "user_request",
                       !.message = StringMessage(<<"u6DFB", "u52A0", "u529F", "u80FD">>)]
SuccessEntry == [EmptyEntry EXCEPT !.status = "success"]
FailedMutation == [EmptyEntry EXCEPT !.mutation_applied = TRUE, !.solidify_failed = TRUE]
CapabilityMention == [EmptyEntry EXCEPT !.type = "capability_mention", !.name = <<"c">>]
CustomMention ==
    [EmptyEntry EXCEPT !.type = "custom", !.customType = "capability_mention",
                       !.dataName = <<"c">>]

EntrySamples ==
    {OkMessage, ErrorMessage, DetailMessage, SimpleError, ToolEntry("r"), ToolEntry("w"),
     ToolMessage, UserAdd, UserRequest, SuccessEntry, FailedMutation, CapabilityMention,
     CustomMention}

\* most reorderings of one input
MaxReorders == 1
\* most entries of a second kind in an input
MaxOthers == 2

\* lengths of a run of one entry: around each threshold of the rules
RunLengths ==
    {0, 1, RepeatedToolUsage, HighToolUsage, PlateauWindow - 1, PlateauWindow}

EntryLists ==
    {Rep(n, a) \o Rep(m, b) : n \in RunLengths, m \in 0..MaxOthers,
                              a \in EntrySamples, b \in EntrySamples}

Swapped(list, i, j) ==
    [k \in DOMAIN list |-> IF k = i THEN list[j] ELSE IF k = j THEN list[i] ELSE list[k]]

SignalSet(signals) == {signals[i] : i \in DOMAIN signals}

ExtractorInit ==
    /\ call \in {[fn |-> "extractSignals", entries |-> e, seen |-> {}, reorders |-> 0] :
                    e \in {NullList} \cup {List(l) : l \in EntryLists}}
    /\ ret = NotReturned

\* extractSignals(entries) is called
CallExtractSignals ==
    /\ call.fn = "extractSignals"
    /\ ~ret.returned
    /\ \E r \in {ExtractSignalsFrom(call.entries)} :
          ret' = [returned |-> TRUE, thrown |-> FALSE, value |-> r]
    /\ UNCHANGED <<call, NotCall>>

\* the caller turns to the same entries in another order
Reorder ==
    /\ call.fn = "extractSignals"
    /\ ret.returned
    /\ call.reorders < MaxReorders
    /\ \E i, j \in DOMAIN call.entries.items :
          /\ i < j
          /\ call.entries.items[i] # call.entries.items[j]
          /\ call' = [call EXCEPT !.entries = List(Swapped(call.entries.items, i, j)),
                                  !.seen = @ \cup {SignalSet(ret.value)},
                                  !.reorders = @ + 1]
    /\ ret' = NotReturned
    /\ UNCHANGED NotCall

ExtractorNext == CallExtractSignals \/ Reorder

(***************************************************************************)
(* The capability tree and its file (tree/tree, gep/store). The members    *)
(* of the object this.data are root and nodes; nodes is written with its   *)
(* keys in their order.                                                    *)
(***************************************************************************)
TreeMembers(root, nodes, order) == [root |-> root, nodes |-> [map |-> nodes, order |-> order]]

\* this.data as saveCapabilityTree hands it to JSON.stringify: root and nodes
\* are named properties of it, and of an array they are not written
TreeDataOf(data, root, nodes, order) ==
    IF data.isArray THEN JsonArray(data.items)
    ELSE JsonObject(TreeMembers(root, nodes, order))

\* new CapabilityTree(): loadCapabilityTree() and the members the
\* constructor adds when they are missing
Constructed(file) ==
    LET r == ReadJSON(file)
    IN  IF r.thrown THEN [thrown |-> TRUE]
        ELSE IF r.value.kind = "array"
        THEN [thrown |-> FALSE, data |-> Arr(r.value.items), root |-> DefaultRoot,
              nodes |-> <<>>, order |-> <<>>]
        ELSE [thrown |-> FALSE, data |-> NotArray,
              root |-> IF "root" \in DOMAIN r.value.value THEN r.value.value.root
                       ELSE DefaultRoot,
              nodes |-> IF "nodes" \in DOMAIN r.value.value THEN r.value.value.nodes.map
                        ELSE <<>>,
              order |-> IF "nodes" \in DOMAIN r.value.value THEN r.value.value.nodes.order
                        ELSE <<>>]

\* a program calls tree.save()
SaveTree ==
    /\ treeFile' = WriteJSON(TreeDataOf(treeData, treeRoot, treeNodes, treeOrder))
    /\ treeRes' = [op |-> "save", thrown |-> FALSE]
    /\ UNCHANGED <<treeData, treeRoot, treeNodes, treeOrder, inherited, now, NotTreeStore>>

\* a program constructs a CapabilityTree anew and goes on with it
LoadTree ==
    /\ \E c \in {Constructed(treeFile)} :
          IF c.thrown
          THEN /\ treeRes' = [op |-> "load", thrown |-> TRUE]
               /\ UNCHANGED <<treeData, treeRoot, treeNodes, treeOrder>>
          ELSE /\ treeData' = c.data
               /\ treeRoot' = c.root
               /\ treeNodes' = c.nodes
               /\ treeOrder' = c.order
               /\ treeRes' = [op |-> "load", thrown |-> FALSE]
    /\ UNCHANGED <<treeFile, inherited, now, NotTreeStore>>

\* what capability_tree.json holds before the first load: nothing, an empty
\* text, an empty array, an empty object, or a tree that was saved
SavedTree ==
    TreeMembers([DefaultRoot EXCEPT !.children = Arr(<<"cap.b">>)],
                [id \in {"cap.b"} |-> CreateNode("cap.b", "cap")], <<"cap.b">>)

TreeFiles ==
    {NoFile, FileOf(<<>>), WriteJSON(JsonArray(<<>>)), WriteJSON(JsonObject(<<>>)),
     WriteJSON(JsonObject(SavedTree))}

\* the first CapabilityTree of a program, on any of the files
TreeStoreInit ==
    /\ treeFile \in TreeFiles
    /\ treeData = Constructed(treeFile).data
    /\ treeRoot = Constructed(treeFile).root
    /\ treeNodes = Constructed(treeFile).nodes
    /\ treeOrder = Constructed(treeFile).order
    /\ now = FirstReading
    /\ inherited = [k \in ObjectPrototypeKeys |-> NotArray]
    /\ treeRes = [op |-> "new", node |-> NullId, thrown |-> FALSE, error |-> ""]
    /\ genes = <<GeneRepair, GeneInnovate>>
    /\ capsules = <<>>
    /\ events = <<>>
    /\ engine = NewEngineOf(NullId, FALSE, NoSessions)
    /\ res = NoResult
    /\ trace = <<>>

\* the program has not saved its tree yet
Unsaved == treeRes.op \notin {"save", "load"}

\* a program works on its tree, saves it, and constructs the tree anew
TreeStoreNext ==
    \/ Unsaved /\ AddFilled
    \/ Unsaved /\ GrowNode
    \/ Unsaved /\ RemoveNode
    \/ Unsaved /\ MergeNodes
    \/ Unsaved /\ PruneStale
    \/ Unsaved /\ SaveTree
    \/ treeRes.op = "save" /\ LoadTree

(***************************************************************************)
(* The interval of the scheduler (pcec/scheduler). Intervals are numbers   *)
(* of milliseconds, held as Num(ms) or NaN.                                *)
(***************************************************************************)
DigitValue ==
    [c \in Digits |-> CHOOSE v \in 0..9 :
                         <<"0", "1", "2", "3", "4", "5", "6", "7", "8", "9">>[v + 1] = c]

RECURSIVE DigitsValue(_, _, _)
\* the number the digits from position i on spell after value, up to the
\* first character that is no digit
DigitsValue(str, i, value) ==
    IF i > Len(str) \/ str[i] \notin Digits THEN value
    ELSE DigitsValue(str, i + 1, 10 * value + DigitValue[str[i]])

\* parseInt(str, 10)
ParseInt(str) ==
    LET blanks == {i \in DOMAIN str : \A j \in 1..i : str[j] \in Whitespace}
        start == Cardinality(blanks) + 1
        signed == start <= Len(str) /\ str[start] \in {"+", "-"}
        first == IF signed THEN start + 1 ELSE start
    IN  IF first > Len(str) \/ str[first] \notin Digits THEN NaN
        ELSE IF signed /\ str[start] = "-" THEN Num(0 - DigitsValue(str, first, 0))
        ELSE Num(DigitsValue(str, first, 0))

DefaultIntervalText == <<"1", "0", "8", "0", "0", "0", "0", "0">>
DefaultMinIntervalMs == 1800000
DefaultMaxIntervalMs == 21600000

\* an option or an environment variable that is not given
NotGiven == [given |-> FALSE, value |-> 0, text |-> <<>>]
Option(value) == [given |-> TRUE, value |-> value, text |-> <<>>]
EnvText(text) == [given |-> TRUE, value |-> 0, text |-> text]

\* option || fallback, for an option that is a number
OptionTruthy(option) == option.given /\ option.value # 0

\* new PCECScheduler(options) with PCEC_INTERVAL_MS as env: the fields of
\* the intervals
NewIntervals(intervalMs, minIntervalMs, maxIntervalMs, env) ==
    [intervalMs |-> IF OptionTruthy(intervalMs) THEN Num(intervalMs.value)
                    ELSE ParseInt(IF env.given /\ env.text # <<>> THEN env.text
                                  ELSE DefaultIntervalText),
     minIntervalMs |-> IF OptionTruthy(minIntervalMs) THEN minIntervalMs.value
                       ELSE DefaultMinIntervalMs,
     maxIntervalMs |-> IF OptionTruthy(maxIntervalMs) THEN maxIntervalMs.value
                       ELSE DefaultMaxIntervalMs]

\* Math.floor(x * 0.8) and Math.floor(x * 1.3) for a whole number x
FloorOfShortened(x) == IF x.nan THEN NaN ELSE Num((4 * x.q) \div 5)
FloorOfLengthened(x) == IF x.nan THEN NaN ELSE Num((13 * x.q) \div 10)

\* adjustInterval that lets 'active' go below the floor
AdjustedUnclamped(s, activityLevel) ==
    IF activityLevel = "active" THEN [s EXCEPT !.intervalMs = FloorOfShortened(@)]
    ELSE IF activityLevel = "saturated"
    THEN [s EXCEPT !.intervalMs = MathMin(FloorOfLengthened(@), s.maxIntervalMs)]
    ELSE s

\* the fields after adjustInterval(activityLevel)
Adjusted(s, activityLevel) ==
    IF activityLevel = "active"
    THEN [s EXCEPT !.intervalMs = MathMax(FloorOfShortened(@), s.minIntervalMs)]
    ELSE IF activityLevel = "saturated"
    THEN [s EXCEPT !.intervalMs = MathMin(FloorOfLengthened(@), s.maxIntervalMs)]
    ELSE s

\* a scheduler constructed without options and without the variable
IntervalIdle ==
    /\ intervals = NewIntervals(NotGiven, NotGiven, NotGiven, NotGiven)
    /\ adjustments = <<>>

\* most adjustInterval calls explored
MaxAdjustments == 4

IntervalOptions ==
    {NotGiven, Option(0), Option(100), Option(DefaultMinIntervalMs),
     Option(DefaultMaxIntervalMs), Option(30000000)}

EnvSamples ==
    {NotGiven, EnvText(<<>>), EnvText(<<"a", "b", "c">>), EnvText(<<"6", "0", "0", "0", "0">>),
     EnvText(<<" ", "7", "2", "0", "0", "0", "0", "0", "m", "s">>)}

ActivityLevels == {"active", "idle", "saturated", "busy"}

\* new PCECScheduler(options), on any of the options and environments
AdjusterInit ==
    /\ intervals \in {NewIntervals(i, lo, hi, env) :
                         i \in IntervalOptions,
                         lo \in {NotGiven, Option(3600000)},
                         hi \in {NotGiven, Option(7200000)},
                         env \in EnvSamples}
    /\ adjustments = <<>>

\* a program calls scheduler.adjustInterval(activityLevel)
AdjustInterval ==
    /\ Len(adjustments) < MaxAdjustments
    /\ \E activityLevel \in ActivityLevels :
          /\ intervals' = Adjusted(intervals, activityLevel)
          /\ adjustments' = Append(adjustments, [level |-> activityLevel,
                                                 before |-> intervals.intervalMs])
    /\ UNCHANGED NotInterval

(***************************************************************************)
(* Writers of the asset store (gep/store): processes that call addCapsule  *)
(* and appendEvent on the same files. A call of fs is one step.            *)
(***************************************************************************)
Writers == {1, 2}

\* the capsule and the event writer w adds
CapsuleOf(w) == [id |-> IF w = 1 THEN "a" ELSE "b"]
EventOf(w) == [id |-> IF w = 1 THEN "a" ELSE "b"]

\* what a writer is to call, in order
TaskLists ==
    {<<"addCapsule">>, <<"appendEvent">>, <<"addCapsule", "appendEvent">>,
     <<"appendEvent", "addCapsule">>}

IdleWriter(tasks) == [tasks |-> tasks, pc |-> "idle", loaded |-> <<>>, thrown |-> FALSE]

\* no writer is there
WriterIdle ==
    /\ writers = [w \in Writers |-> IdleWriter(<<>>)]
    /\ storeFiles = [capsules |-> NoFile, events |-> NoFile]
    /\ appendLog = <<>>

\* the events a log holds at first
FirstEvents == {<<>>, <<[id |-> "a"]>>}

WriterInit ==
    /\ writers \in [Writers -> {IdleWriter(t) : t \in TaskLists}]
    /\ appendLog \in FirstEvents
    /\ storeFiles \in {[capsules |-> c, events |-> e] :
                          c \in {NoFile, WriteJSON(JsonArray(<<>>)),
                                 WriteJSON(JsonArray(<<[id |-> "b"]>>)),
                                 WriteJSON(JsonObject([id |-> "a"]))},
                          e \in {IF appendLog = <<>> THEN NoFile
                                 ELSE AppendJSONL(NoFile, appendLog[1])}}

NextTask(w, task) ==
    /\ writers[w].pc = "idle"
    /\ ~writers[w].thrown
    /\ writers[w].tasks # <<>>
    /\ Head(writers[w].tasks) = task

\* addCapsule, first statement: const capsules = loadCapsules()
LoadCapsules(w) ==
    /\ NextTask(w, "addCapsule")
    /\ \E r \in {ReadJSON(storeFiles.capsules)} :
          writers' = [writers EXCEPT ![w] =
                        IF r.thrown THEN [@ EXCEPT !.thrown = TRUE]
                        ELSE [@ EXCEPT !.pc = "loaded", !.loaded = r.value]]
    /\ UNCHANGED <<storeFiles, appendLog, NotWriter>>

\* addCapsule, the rest: capsules.push(capsule); saveCapsules(capsules);
\* push is no function of an object that is no array
SaveCapsules(w) ==
    /\ writers[w].pc = "loaded"
    /\ IF writers[w].loaded.kind = "array"
       THEN /\ storeFiles' = [storeFiles EXCEPT !.capsules =
                                WriteJSON(JsonArray(Append(writers[w].loaded.items,
                                                           CapsuleOf(w))))]
            /\ writers' = [writers EXCEPT ![w].pc = "idle", ![w].tasks = Tail(@),
                                          ![w].loaded = <<>>]
       ELSE /\ writers' = [writers EXCEPT ![w].pc = "idle", ![w].thrown = TRUE,
                                          ![w].loaded = <<>>]
            /\ UNCHANGED storeFiles
    /\ UNCHANGED <<appendLog, NotWriter>>

\* appendEvent(event)
AppendEvent(w) ==
    /\ NextTask(w, "appendEvent")
    /\ storeFiles' = [storeFiles EXCEPT !.events = AppendJSONL(@, EventOf(w))]
    /\ appendLog' = Append(appendLog, EventOf(w))
    /\ writers' = [writers EXCEPT ![w].tasks = Tail(@)]
    /\ UNCHANGED NotWriter

WriterNext ==
    \E w \in Writers : LoadCapsules(w) \/ SaveCapsules(w) \/ AppendEvent(w)

(***************************************************************************)
(* Genes and the gene store (gep/gene, gep/store). genes is what           *)
(* genes.json parses to.                                                   *)
(***************************************************************************)
GENE_CATEGORIES == {"repair", "optimize", "innovate"}

\* the ids `gene_${crypto.randomUUID().slice(0, 8)}` may come out as
GeneratedIds == {"gene_0a1b2c3d", "gene_4e5f6a7b"}

\* createGene(params): throws, or returns the gene
CreateGene(params, generated) ==
    IF Falsy(params.category) \/ params.category \notin GENE_CATEGORIES
    THEN [thrown |-> TRUE, error |-> "Invalid gene category"]
    ELSE IF ~params.signals_match.isArray \/ Len(params.signals_match.items) = 0
    THEN [thrown |-> TRUE, error |-> "Gene must have at least one signal_match"]
    ELSE IF ~params.strategy.isArray \/ Len(params.strategy.items) = 0
    THEN [thrown |-> TRUE, error |-> "Gene must have at least one strategy step"]
    ELSE [thrown |-> FALSE, error |-> "",
          gene |-> [type |-> "Gene",
                    id |-> IF Falsy(params.id) THEN generated ELSE params.id,
                    category |-> params.category,
                    signals_match |-> params.signals_match,
                    preconditions |-> Arr(<<>>),
                    strategy |-> params.strategy,
                    constraints |-> [max_files |-> DefaultMaxFiles],
                    validation |-> Arr(<<>>),
                    capability_node_id |-> NullId,
                    v_score |-> NullScore]]

\* a list property that is undefined
UndefinedList == [isArray |-> FALSE, items |-> <<>>, undefined |-> TRUE]

\* updates[key] === undefined
IsUndefined(updates, key) ==
    IF key = "category" THEN updates[key] = Undefined ELSE updates[key] = UndefinedList

\* updateGene(gene, updates): every allowed key of updates that is not
\* undefined replaces the gene's
UpdateGene(gene, updates) ==
    [key \in DOMAIN gene |->
        IF key \in DOMAIN updates /\ ~IsUndefined(updates, key) THEN updates[key]
        ELSE gene[key]]

\* genes.findIndex(g => g.id === id): the first position, 0 when there is none
FindIndex(store, id) ==
    IF \E i \in DOMAIN store : store[i].id = id
    THEN CHOOSE i \in DOMAIN store :
            store[i].id = id /\ \A j \in 1..(i - 1) : store[j].id # id
    ELSE 0

\* addGene(gene): replaces the stored gene of the same id, or appends
AddGene(store, gene) ==
    IF FindIndex(store, gene.id) > 0
    THEN [store EXCEPT ![FindIndex(store, gene.id)] = gene]
    ELSE Append(store, gene)

\* removeGene(id): the store without the genes of that id
RemoveGeneFrom(store, id) == SelectSeq(store, LAMBDA g : g.id # id)

\* most genes stored
MaxGenes == 2

\* arguments explored: categories, lists, ids
CategoryInputs == {"repair", "refactor", NullId}
ListInputs == {Arr(<<"recurring_error">>), Arr(<<>>), NotArray}
IdInputs == {"gene_r", NullId}
GeneParams ==
    [id : IdInputs, category : CategoryInputs, signals_match : ListInputs,
     strategy : {Arr(<<"fix">>), Arr(<<>>)}]
GeneUpdates ==
    [category : {Undefined, "optimize", "refactor"},
     signals_match : {UndefinedList, Arr(<<>>), Arr(<<"errsig:*">>)},
     strategy : {UndefinedList, Arr(<<>>)}]

GeneStoreInit ==
    /\ genes = <<>>
    /\ capsules = <<>>
    /\ events = <<>>
    /\ engine = NewEngineOf(NullId, FALSE, NoSessions)
    /\ res = NoResult
    /\ trace = <<>>

\* a program calls addGene(createGene(params))
AddCreated ==
    /\ \E params \in GeneParams, generated \in GeneratedIds :
         \E made \in {CreateGene(params, generated)} :
            IF made.thrown
            THEN /\ genes' = genes
                 /\ res' = [op |-> "createGene", reason |-> made.error, thrown |-> TRUE,
                            solid |-> NoSolidify]
            ELSE /\ Len(AddGene(genes, made.gene)) <= MaxGenes
                 /\ genes' = AddGene(genes, made.gene)
                 /\ res' = [op |-> "addGene", reason |-> made.gene.id, thrown |-> FALSE,
                            solid |-> NoSolidify]
    /\ UNCHANGED <<capsules, events, engine, trace>>
    /\ UNCHANGED NotPipe

\* a program calls addGene(updateGene(gene, updates)) on a stored gene
AddUpdated ==
    /\ \E i \in DOMAIN genes, updates \in GeneUpdates :
         /\ genes' = AddGene(genes, UpdateGene(genes[i], updates))
         /\ res' = [op |-> "updateGene", reason |-> genes[i].id, thrown |-> FALSE,
                    solid |-> NoSolidify]
    /\ UNCHANGED <<capsules, events, engine, trace>>
    /\ UNCHANGED NotPipe

\* a program calls removeGene(id)
RemoveGene ==
    /\ \E id \in {"gene_r"} \cup GeneratedIds :
         /\ genes' = RemoveGeneFrom(genes, id)
         /\ res' = [op |-> "removeGene", reason |-> id,
                    thrown |-> FALSE, solid |-> NoSolidify]
    /\ UNCHANGED <<capsules, events, engine, trace>>
    /\ UNCHANGED NotPipe

GeneStoreNext == AddCreated \/ AddUpdated \/ RemoveGene

(***************************************************************************)
(* Specifications                                                          *)
(***************************************************************************)
\* the scheduler under every interleaving of its operations
SchedSpecInit == SchedInit /\ AdlIdle /\ PipeIdle /\ TreeInit /\ CallIdle /\ PcecIdle /\ IntervalIdle
    /\ WriterIdle

SchedSpec == SchedSpecInit /\ [][SchedNext]_vars

\* The timer queue fires every timeout that stays set, and the cycle
\* callback's promise settles.
SchedFairSpec ==
    /\ SchedSpecInit
    /\ [][SchedNext]_vars
    /\ WF_vars(\E h \in TimerHandles : TimerFire(h))
    /\ WF_vars(\E o \in Outcomes : Settle(o))

\* checkADL on every sampled argument triple
AdlSpecInit == AdlInit /\ SchedInit /\ PipeIdle /\ TreeInit /\ CallIdle /\ PcecIdle /\ IntervalIdle
    /\ WriterIdle

AdlSpec == AdlSpecInit /\ [][CallCheckADL]_vars

\* hasStabilityRegression on every sampled history
HsrSpecInit == HsrInit /\ SchedInit /\ PipeIdle /\ TreeInit /\ CallIdle /\ PcecIdle /\ IntervalIdle
    /\ WriterIdle

HsrSpec == HsrSpecInit /\ [][CallHasStabilityRegression]_vars

\* direct solidify() calls over the sampled stores
SolidSpecInit == SolidInit /\ SchedInit /\ AdlIdle /\ TreeInit /\ CallIdle /\ PcecIdle /\ IntervalIdle
    /\ WriterIdle

SolidSpec == SolidSpecInit /\ [][SolidifyCall]_vars

\* engines and their cycles over the sampled stores
PipeSpecInit == PipeInit /\ SchedInit /\ AdlIdle /\ TreeInit /\ CallIdle /\ PcecIdle /\ IntervalIdle
    /\ WriterIdle

PipeSpec == PipeSpecInit /\ [][PipeNext]_vars

\* addNode calls on a tree that starts with its root alone
TreeSpecInit == TreeInit /\ SchedInit /\ AdlIdle /\ PipeIdle /\ CallIdle /\ PcecIdle /\ IntervalIdle
    /\ WriterIdle

TreeSpec == TreeSpecInit /\ [][AddNode]_vars

\* every operation of the capability tree, on filled-in nodes, with a clock
TreeOpsSpecInit == TreeOpsInit /\ SchedInit /\ AdlIdle /\ CallIdle /\ PcecIdle /\ IntervalIdle
    /\ WriterIdle

TreeOpsSpec == TreeOpsSpecInit /\ [][TreeOpsNext]_vars

\* checkStrategyAllowance called once on sampled arguments
QuotaSpecInit == QuotaInit /\ SchedInit /\ AdlIdle /\ PipeIdle /\ TreeInit /\ PcecIdle /\ IntervalIdle
    /\ WriterIdle

QuotaSpec == QuotaSpecInit /\ [][CallCheckStrategyAllowance]_vars

\* selectGene, rankGenes or matchScore called once on a sampled store
SelectorSpecInit == SelectorInit /\ SchedInit /\ AdlIdle /\ TreeInit /\ PcecIdle /\ IntervalIdle
    /\ WriterIdle

SelectorSpec == SelectorSpecInit /\ [][SelectorNext]_vars

\* analyzePruning called once on sampled node lists
PrunerSpecInit == PrunerInit /\ SchedInit /\ AdlIdle /\ PipeIdle /\ TreeInit /\ PcecIdle /\ IntervalIdle
    /\ WriterIdle

PrunerSpec == PrunerSpecInit /\ [][CallAnalyzePruning]_vars

\* assessRisk called once on sampled arguments
RiskSpecInit == RiskInit /\ SchedInit /\ AdlIdle /\ PipeIdle /\ TreeInit /\ PcecIdle /\ IntervalIdle
    /\ WriterIdle

RiskSpec == RiskSpecInit /\ [][CallAssessRisk]_vars

\* PCEC cycles constructed, filled and completed in any order
PcecSpecInit == PcecInit /\ SchedInit /\ AdlIdle /\ PipeIdle /\ TreeInit /\ CallIdle /\ IntervalIdle
    /\ WriterIdle

PcecSpec == PcecSpecInit /\ [][PcecNext]_vars

\* mutateWeights called on any weights, then on the weights it returned
MutatorSpecInit == MutatorInit /\ SchedInit /\ AdlIdle /\ PipeIdle /\ TreeInit /\ PcecIdle /\ IntervalIdle
    /\ WriterIdle

MutatorSpec == MutatorSpecInit /\ [][MutatorNext]_vars

\* computeVScore and isWorthEvolving called on their own
ScorerSpecInit == ScorerInit /\ SchedInit /\ AdlIdle /\ PipeIdle /\ TreeInit /\ PcecIdle /\ IntervalIdle
    /\ WriterIdle

ScorerSpec == ScorerSpecInit /\ [][ScorerNext]_vars

\* the loaders called on any content of their file
StoreSpecInit == StoreInit /\ SchedInit /\ AdlIdle /\ PipeIdle /\ TreeInit /\ PcecIdle /\ IntervalIdle
    /\ WriterIdle

StoreSpec == StoreSpecInit /\ [][CallLoad]_vars

\* rollback called on any lists of files
RollbackSpecInit == RollbackInit /\ SchedInit /\ AdlIdle /\ PipeIdle /\ TreeInit /\ PcecIdle /\ IntervalIdle
    /\ WriterIdle

RollbackSpec == RollbackSpecInit /\ [][CallRollback]_vars

\* extractSignals called on entries and on the same entries reordered
ExtractorSpecInit == ExtractorInit /\ SchedInit /\ AdlIdle /\ PipeIdle /\ TreeInit /\ PcecIdle /\ IntervalIdle
    /\ WriterIdle

ExtractorSpec == ExtractorSpecInit /\ [][ExtractorNext]_vars

\* the tree operations with save() and construction from the file
TreeStoreSpecInit == TreeStoreInit /\ SchedInit /\ AdlIdle /\ CallIdle /\ PcecIdle /\ IntervalIdle
    /\ WriterIdle

TreeStoreSpec == TreeStoreSpecInit /\ [][TreeStoreNext]_vars

\* adjustInterval called on schedulers constructed in every sampled way
AdjusterSpecInit ==
    AdjusterInit /\ SchedInit /\ AdlIdle /\ PipeIdle /\ TreeInit /\ CallIdle /\ PcecIdle
    /\ WriterIdle

AdjusterSpec == AdjusterSpecInit /\ [][AdjustInterval]_vars

\* two writers on the same capsule store and event log
WriterSpecInit ==
    WriterInit /\ SchedInit /\ AdlIdle /\ PipeIdle /\ TreeInit /\ CallIdle /\ PcecIdle
    /\ IntervalIdle

WriterSpec == WriterSpecInit /\ [][WriterNext]_vars

\* genes created, updated, stored and removed
GeneStoreSpecInit == GeneStoreInit /\ SchedInit /\ AdlIdle /\ TreeInit /\ CallIdle /\ PcecIdle /\ IntervalIdle
    /\ WriterIdle

GeneStoreSpec == GeneStoreSpecInit /\ [][GeneStoreNext]_vars

\* engine cycles under one forced preset, on a log that begins empty
QuotaRunSpecInit == QuotaRunInit /\ SchedInit /\ AdlIdle /\ TreeInit /\ CallIdle /\ PcecIdle /\ IntervalIdle
    /\ WriterIdle

QuotaRunSpec == QuotaRunSpecInit /\ [][QuotaRunNext]_vars

(***************************************************************************)
(* Claims about the scheduler                                              *)
(***************************************************************************)

\* C7: under every interleaving of start, stop, timer expiry and settlement,
\* at most one timer-driven cycle callback is in flight, at most one timer is
\* pending, no timer is pending while a cycle is in flight, and start() on a
\* running scheduler arms no timer.
C7_Serialized ==
    [][ /\ inflight' <= 1
        /\ Cardinality(armed') <= 1
        /\ (inflight' = 0 \/ armed' = {})
        /\ (running /\ lastOp' = "start" => armed' = armed) ]_vars

\* C8: while the scheduler is stopped no timer-driven cycle callback starts,
\* and stop() leaves running = false with no timer pending.
C8_StopIsFinal ==
    [][ /\ (~running => timerCycles' = timerCycles)
        /\ (lastOp' = "stop" => ~running' /\ timer' = NoTimer /\ armed' = {}) ]_vars

\* C9: after every timer-driven cycle that settles on a running scheduler,
\* resolved or rejected, the next tick is armed; and with timers that fire
\* and callbacks that settle, a running scheduler goes on to start the next
\* cycle unless it is stopped.
C9_FailedCyclesRearm ==
    /\ [][ (lastOp' \in {"settle_ok", "settle_err"} /\ running)
             => (timer' \in armed' /\ timer' \notin armed) ]_vars
    /\ \A n \in 0..(MaxCycles - 1) :
         (running /\ timerCycles = n) ~> (~running \/ timerCycles > n)

\* A rejected cycle has settled and the next tick is armed.
C9_Witness == lastOp = "settle_err" /\ running /\ timer \in armed /\ timerCycles >= 1

(***************************************************************************)
(* Claims about the ADL gate                                               *)
(***************************************************************************)
Reported(v) == \E i \in DOMAIN adlResult.violations : adlResult.violations[i] = v

ViolationNames == {"complexity_increase_without_justification", "unverifiable_evolution",
                   "vague_concept_detected", "stability_regression", "no_rollback_path"}

\* what C4 says of every check but the second
C4_OtherChecks ==
    /\ \A i, j \in DOMAIN adlResult.violations :
         i # j => adlResult.violations[i] # adlResult.violations[j]
    /\ \A i \in DOMAIN adlResult.violations : adlResult.violations[i] \in ViolationNames
    /\ Reported("complexity_increase_without_justification")
         <=> (adlMutation.category = "innovate" /\ adlBlast.present
              /\ adlBlast.files > ComplexityFileLimit)
    /\ Reported("vague_concept_detected")
         <=> (adlMutation.expected_effect.kind = "string"
              /\ \E k \in DOMAIN VAGUE_TERMS :
                   Includes(ToLowerCase(adlMutation.expected_effect.text), VAGUE_TERMS[k]))
    /\ Reported("stability_regression") <=> HasStabilityRegression(adlHistory)
    /\ Reported("no_rollback_path") <=> adlMutation.gene_id \in {NullId, ""}
    /\ adlResult.ok <=> adlResult.violations = <<>>

SuccessesIn(h, lo, hi) ==
    Cardinality({i \in lo..hi : "success" \in DOMAIN h[i] /\ h[i].success = TRUE})

\* C5: hasStabilityRegression is false below 10 entries; from 10 entries on
\* it is true exactly when the success rate of the last 5 entries is below
\* 90% of the success rate of the 5 entries before them; 5 successes
\* followed by 5 failures is a regression.
C5_StabilityRegression ==
    hsrResult.called =>
        LET n == Len(adlHistory)
        IN  /\ (n < MinHistory => ~hsrResult.value)
            /\ (n >= MinHistory =>
                  (hsrResult.value <=>
                     10 * SuccessesIn(adlHistory, n - HistoryWindow + 1, n)
                       < 9 * SuccessesIn(adlHistory, n - 2 * HistoryWindow + 1, n - HistoryWindow)))
            /\ (adlHistory = Rep(HistoryWindow, Succeeded) \o Rep(HistoryWindow, Failed)
                  => hsrResult.value)

\* a regression found in a history longer than the two windows
C5_Witness == hsrResult.called /\ hsrResult.value /\ Len(adlHistory) > MinHistory

(***************************************************************************)
(* Claims about solidify and the engine cycle                              *)
(***************************************************************************)
\* the events the step appended to the log
AppendedNow == SubSeq(events', Len(events) + 1, Len(events'))
\* every validation command of the call the step made succeeded
AllPassedNow == \A i \in DOMAIN res'.solid.results : res'.solid.results[i].success
\* positions of a call in the calls the step made
CallsNow(name) == {i \in DOMAIN trace' : trace'[i] = name}
EventsNow(eventType) == {i \in DOMAIN AppendedNow : AppendedNow[i].event_type = eventType}

PassedIn(h, lo, hi) == Cardinality({i \in lo..hi : h[i].metrics.validation_passed})

\* C6: a solidify call whose validations pass, on a capsule store of at least
\* 10 capsules in which the share of validation-passed capsules among the
\* last 5 is below 90% of the share among the 5 before them, is rejected
\* with an adl_violation that lists stability_regression.
C6_RegressionRejected ==
    [][(/\ res'.solid.called
        /\ AllPassedNow
        /\ Len(capsules) >= MinHistory
        /\ 10 * PassedIn(capsules, Len(capsules) - HistoryWindow + 1, Len(capsules))
             < 9 * PassedIn(capsules, Len(capsules) - 2 * HistoryWindow + 1,
                            Len(capsules) - HistoryWindow))
       => /\ res'.reason = "adl_violation"
          /\ \E i \in DOMAIN res'.solid.adl.violations :
                res'.solid.adl.violations[i] = "stability_regression"]_vars

\* C3: in the calls of an engine cycle, the mutation_applied event is
\* appended only after checkADL has been called on the proposal.
C3_GateBeforeMutationApplied ==
    res.op = "runCycle" =>
        \A i \in DOMAIN trace :
            trace[i] = "appendEvent:mutation_applied"
                => \E j \in 1..(i - 1) : trace[j] = "checkADL"

(***************************************************************************)
(* Claims about the capability tree                                        *)
(***************************************************************************)
\* the id names the root or a node of the tree
InTree(id) == id = treeRoot.id \/ id \in DOMAIN treeNodes

\* C10: addNode throws when the node's id is already in the tree (the root's
\* or a node's) and when its parent_id names neither the root nor a node;
\* an addNode that throws leaves root, node map and child lists as they
\* were; an addNode that returns has added exactly that node and appended
\* its id to the child list of its parent and to no other.
C10_AddNodeContract ==
    [][treeRes'.op = "addNode" =>
         LET node == treeRes'.node
         IN  /\ (InTree(node.id) \/ ~InTree(node.parent_id)) => treeRes'.thrown
             /\ treeRes'.thrown => treeRoot' = treeRoot /\ treeNodes' = treeNodes
             /\ ~treeRes'.thrown =>
                   /\ DOMAIN treeNodes' = DOMAIN treeNodes \cup {node.id}
                   /\ treeNodes'[node.id].id = node.id
                   /\ treeRoot'.children.items =
                         IF node.parent_id = treeRoot.id
                         THEN Append(treeRoot.children.items, node.id)
                         ELSE treeRoot.children.items
                   /\ \A k \in DOMAIN treeNodes :
                         treeNodes'[k].children.items =
                           IF k = node.parent_id /\ node.parent_id # treeRoot.id
                           THEN Append(treeNodes[k].children.items, node.id)
                           ELSE treeNodes[k].children.items]_vars

\* the ids a node's child list names
ChildIds(id) ==
    IF id \in DOMAIN treeNodes
    THEN {treeNodes[id].children.items[i] : i \in 1..Len(treeNodes[id].children.items)}
    ELSE {}

RECURSIVE ChildClosure(_)
ChildClosure(ids) ==
    IF (ids \cup UNION {ChildIds(x) : x \in ids}) = ids THEN ids
    ELSE ChildClosure(ids \cup UNION {ChildIds(x) : x \in ids})

\* id and everything below it, before the call
Subtree(id) == ChildClosure({id})

\* C11: removeNode(id) on an existing node returns true; afterwards
\* getNode(id) returns none, every descendant of id is gone from the node
\* map, no child list of a surviving node or of the root names id or a
\* removed descendant, and the nodes outside the removed subtree are as
\* before apart from the parent's child list. removeNode on an id that is
\* not in the node map returns false and changes nothing.
C11_RemoveNodeContract ==
    [][treeRes'.op = "removeNode" =>
         LET id == treeRes'.id
         IN  IF id \in DOMAIN treeNodes
             THEN /\ ~treeRes'.thrown /\ treeRes'.ret
                  /\ id \notin DOMAIN treeNodes' /\ id # treeRoot'.id
                  /\ Subtree(id) \cap DOMAIN treeNodes' = {}
                  /\ \A r \in Subtree(id) :
                        /\ ~In(r, treeRoot'.children.items)
                        /\ \A k \in DOMAIN treeNodes' : ~In(r, treeNodes'[k].children.items)
                  /\ \A k \in DOMAIN treeNodes \ Subtree(id) :
                        /\ k \in DOMAIN treeNodes'
                        /\ treeNodes'[k] =
                              IF k = treeNodes[id].parent_id
                              THEN [treeNodes[k] EXCEPT !.children = treeNodes'[k].children]
                              ELSE treeNodes[k]
             ELSE /\ ~treeRes'.ret /\ ~treeRes'.thrown
                  /\ treeRoot' = treeRoot /\ treeNodes' = treeNodes]_vars

\* the members of a list
Members(items) == {items[i] : i \in 1..Len(items)}

\* id is a node of the tree: in the node map and reached from the root
\* through child lists
Attached(id) ==
    /\ id \in DOMAIN treeNodes
    /\ id \in UNION {Subtree(c) : c \in Members(treeRoot.children.items)}

\* no child list names id
Unreferenced(id) ==
    /\ ~In(id, treeRoot.children.items)
    /\ \A k \in DOMAIN treeNodes : ~In(id, treeNodes[k].children.items)

\* C12: for two different existing nodes a and b, mergeNodes(a, b) keeps
\* the one with the higher trigger count, a on a tie, and deletes the other:
\* afterwards the keeper is in the tree, the discarded node is not, the
\* keeper's linked genes and linked skills are the set union of both nodes',
\* every former child of the discarded node has the keeper as parent and is
\* in the keeper's child list, and no child list names the discarded node.
C12_MergeContract ==
    [][\A a, b, keeper, gone \in OpsIds :
         (/\ treeRes'.op = "mergeNodes" /\ treeRes'.id1 = a /\ treeRes'.id2 = b
          /\ a # b /\ Attached(a) /\ Attached(b)
          /\ keeper = (IF treeNodes[b].trigger_count > treeNodes[a].trigger_count
                       THEN b ELSE a)
          /\ gone = (IF keeper = a THEN b ELSE a))
         => /\ ~treeRes'.thrown /\ treeRes'.keeper = keeper
            /\ Attached(keeper)'
            /\ gone \notin DOMAIN treeNodes'
            /\ Members(treeNodes'[keeper].linked_genes.items) =
                  Members(treeNodes[a].linked_genes.items)
                  \cup Members(treeNodes[b].linked_genes.items)
            /\ Members(treeNodes'[keeper].linked_skills.items) =
                  Members(treeNodes[a].linked_skills.items)
                  \cup Members(treeNodes[b].linked_skills.items)
            /\ \A c \in ChildIds(gone) \cap DOMAIN treeNodes :
                  /\ c \in DOMAIN treeNodes'
                  /\ treeNodes'[c].parent_id = keeper
                  /\ In(c, treeNodes'[keeper].children.items)
            /\ Unreferenced(gone)']_vars

\* C13: whatever tree operation runs, a node that stays in the node map
\* changes its status only from active or candidate to pruned; a pruned
\* node never becomes active or candidate again.
C13_StatusOneWay ==
    [][\A id \in DOMAIN treeNodes \cap DOMAIN treeNodes' :
         treeNodes'[id].status # treeNodes[id].status
         => /\ treeNodes[id].status \in {"active", "candidate"}
            /\ treeNodes'[id].status = "pruned"]_vars

\* pruneStale has pruned cap.a, and a merge that kept it has run since
C13_Witness ==
    /\ treeRes.op = "mergeNodes" /\ ~treeRes.thrown
    /\ treeRes.keeper = "cap.a" /\ treeRes.id1 # treeRes.id2
    /\ "cap.a" \in DOMAIN treeNodes
    /\ treeNodes["cap.a"].status = "pruned"

\* the ids of the nodes whose status is pruned
PrunedIds == {id \in DOMAIN treeNodes : treeNodes[id].status = "pruned"}

\* C14: pruneStale(t) sets status pruned on exactly the nodes that are not
\* pruned, whose last_triggered lies more than t days before the clock
\* reading and whose value score is unset or below 40; it returns their ids
\* and changes nothing else in the tree. A second call with the same
\* threshold at the same clock reading leaves the set of pruned nodes as the
\* first call left it.
C14_PruneStaleExact ==
    [][treeRes'.op = "pruneStale" =>
         LET days == treeRes'.threshold
             due == {id \in DOMAIN treeNodes :
                       /\ treeNodes[id].status # "pruned"
                       /\ treeNodes[id].last_triggered # NullTime
                       /\ now - treeNodes[id].last_triggered > days * 24 * 60 * 60 * 1000
                       /\ (treeNodes[id].v_score = NullScore \/ treeNodes[id].v_score < 40)}
         IN  /\ DOMAIN treeNodes' = DOMAIN treeNodes
             /\ \A id \in DOMAIN treeNodes :
                   treeNodes'[id] = IF id \in due
                                    THEN [treeNodes[id] EXCEPT !.status = "pruned"]
                                    ELSE treeNodes[id]
             /\ treeRes'.pruned = due /\ ~treeRes'.thrown
             /\ treeRoot' = treeRoot /\ treeOrder' = treeOrder /\ inherited' = inherited
             /\ (treeRes.op = "pruneStale" /\ treeRes.threshold = days /\ now' = now)
                   => PrunedIds' = PrunedIds]_vars

\* pruneStale(1) has run a day and a millisecond after the nodes were last
\* triggered: it pruned a node and kept one whose value score is 40
C14_Witness ==
    /\ treeRes.op = "pruneStale" /\ treeRes.threshold = 1
    /\ now = FirstReading + MsPerDay + 1
    /\ treeRes.pruned # {}
    /\ \E id \in DOMAIN treeNodes :
          /\ treeNodes[id].status # "pruned" /\ treeNodes[id].last_triggered = FirstReading
          /\ treeNodes[id].v_score = StaleVScore

\* how many of the ten most recent mutations have the category
RecentCount(history, category) ==
    Cardinality({i \in DOMAIN history : i > Len(history) - 10
                                         /\ history[i].category = category})

\* C15: checkStrategyAllowance denies a category whose target weight is 0
\* and a category absent from the weights; with at least 10 recent
\* mutations it denies exactly when the category's share of the 10 most
\* recent ones, in percent, exceeds its target weight by more than 20; in
\* every other case it allows.
C15_Allowance ==
    (call.fn = "checkStrategyAllowance" /\ ret.returned) =>
        LET c == call.category
            w == call.strategyWeights
            h == call.recentMutations
        IN  ret.value.allowed =
              ~(\/ c \notin DOMAIN w
                \/ w[c] = 0
                \/ Len(h) >= 10 /\ 10 * RecentCount(h, c) - w[c] > 20)

\* C16: assessRisk returns the category's base risk (repair low, optimize
\* low-medium, innovate medium) and no warning when files <= 10 and
\* lines <= 500 (and files <= 5 for innovate); it returns risk medium and at
\* least one warning when files > 10 or lines > 500, and for innovate when
\* files > 5.
C16_RiskEscalation ==
    (call.fn = "assessRisk" /\ ret.returned) =>
        LET category == call.mutation.category
            files == call.blast.files
            lines == call.blast.lines
            base == IF category = "repair" THEN "low"
                    ELSE IF category = "optimize" THEN "low-medium" ELSE "medium"
        IN  IF files > 10 \/ lines > 500 \/ (category = "innovate" /\ files > 5)
            THEN ret.value.risk = "medium" /\ Len(ret.value.warnings) >= 1
            ELSE ret.value.risk = base /\ ret.value.warnings = <<>>

\* the match score of a gene is at least so many tenths
ReachesTenths(gene, signals, tenths) ==
    10 * MatchScore(gene, signals)[1] >= tenths * MatchScore(gene, signals)[2]

\* the match score of gene a, plus 0.1 when bonusA, is at least that of gene b,
\* plus 0.1 when bonusB
OrdersBefore(a, bonusA, b, bonusB, signals) ==
    LET x == MatchScore(a, signals)
        y == MatchScore(b, signals)
    IN  (10 * x[1] + (IF bonusA THEN x[2] ELSE 0)) * y[2]
           >= (10 * y[1] + (IF bonusB THEN y[2] ELSE 0)) * x[2]

\* C17: selectGene returns none for an empty signal list and when no gene's
\* match score reaches minScore; otherwise it returns a gene whose match
\* score reaches minScore and whose score with the preferCategory bonus is
\* highest among the genes that reach minScore.
C17_SelectAboveMinScore ==
    (call.fn = "selectGene" /\ ret.returned) =>
        LET eligible == {i \in DOMAIN genes :
                           ReachesTenths(genes[i], call.signals, call.minScoreTenths)}
            Preferred(i) == call.preferCategory # NullId
                            /\ genes[i].category = call.preferCategory
        IN  IF Len(call.signals) = 0 \/ eligible = {}
            THEN ~ret.value.found
            ELSE /\ ret.value.found
                 /\ \E i \in eligible :
                       /\ genes[i] = ret.value.gene
                       /\ \A j \in eligible :
                             OrdersBefore(genes[i], Preferred(i), genes[j], Preferred(j),
                                          call.signals)

\* twice what the pattern counts for: 1 when it is among the signals, 0.5
\* when it has a colon and some signal starts with its text up to and
\* including the colon, 0 otherwise
TwiceCredit(pattern, signals) ==
    IF In(pattern, signals) THEN 2
    ELSE IF pattern.colon
            /\ \E k \in DOMAIN signals : signals[k].colon /\ signals[k].head = pattern.head
    THEN 1
    ELSE 0

\* C18: matchScore(gene, signals) is the sum over the gene's patterns of 1
\* for a pattern present verbatim in the signals, 0.5 for a pattern of
\* prefix form whose prefix, up to and including the colon, starts some
\* signal, and 0 otherwise, divided by the number of patterns; it lies in
\* [0,1] and is 1 when every pattern is present verbatim.
C18_MatchScoreValue ==
    (call.fn = "matchScore" /\ ret.returned) =>
        LET patterns == call.gene.signals_match
            twice == [i \in DOMAIN patterns |-> TwiceCredit(patterns[i], call.signals)]
        IN  /\ 0 <= ret.value[1] /\ ret.value[1] <= ret.value[2]
            /\ Len(patterns) > 0 =>
                  ret.value[1] * 2 * Len(patterns) = ret.value[2] * SumTo(twice, Len(patterns))
            /\ (Len(patterns) > 0 /\ \A i \in DOMAIN patterns : In(patterns[i], call.signals))
                  => ret.value[1] = ret.value[2]

\* where the gene stands in the store
StorePosition(gene) == CHOOSE i \in DOMAIN genes : genes[i] = gene

\* the match score of gene a is at least that of gene b
ScoresAtLeast(a, b, signals) ==
    MatchScore(a, signals)[1] * MatchScore(b, signals)[2]
       >= MatchScore(b, signals)[1] * MatchScore(a, signals)[2]

\* C19: rankGenes(S) holds exactly the stored genes whose match score is not
\* zero, each once, in descending order of score, genes of equal score in
\* store order; rankGenes of an empty signal list is empty.
C19_RankGenes ==
    (call.fn = "rankGenes" /\ ret.returned) =>
        LET ranked == ret.value
            scoring == {i \in DOMAIN genes : MatchScore(genes[i], call.signals)[1] > 0}
        IN  /\ Len(call.signals) = 0 => ranked = <<>>
            /\ {ranked[k].gene : k \in DOMAIN ranked} = {genes[i] : i \in scoring}
            /\ Len(ranked) = Cardinality(scoring)
            /\ \A k, l \in DOMAIN ranked :
                  k < l =>
                    /\ ScoresAtLeast(ranked[k].gene, ranked[l].gene, call.signals)
                    /\ ScoresAtLeast(ranked[l].gene, ranked[k].gene, call.signals)
                          => StorePosition(ranked[k].gene) < StorePosition(ranked[l].gene)

\* a ranking that dropped a stored gene, moved a gene ahead of one stored
\* before it, and kept two genes of equal score in store order
C19_Witness ==
    /\ call.fn = "rankGenes" /\ ret.returned
    /\ Len(ret.value) = 3 /\ Len(ret.value) < Len(genes)
    /\ StorePosition(ret.value[1].gene) > StorePosition(ret.value[2].gene)
    /\ ScoresAtLeast(ret.value[3].gene, ret.value[2].gene, call.signals)

\* the Jaccard similarity of two token sets is above 0.8; two empty sets
\* count as equal
SimilarNames(a, b) ==
    LET setA == Tokenize(a)
        setB == Tokenize(b)
    IN  IF setA \cup setB = {} THEN TRUE
        ELSE 10 * Cardinality(setA \cap setB) > 8 * Cardinality(setA \cup setB)

\* C20: the merge suggestions of analyzePruning are the unordered pairs of
\* non-pruned nodes whose name token sets (lower-cased, split at whitespace
\* and dots) have a Jaccard similarity above the merge threshold, each pair
\* once; in particular two non-pruned nodes named "Rich Messaging Handler"
\* and "Handler for rich messaging" are a merge suggestion.
C20_MergeSuggestions ==
    (call.fn = "analyzePruning" /\ ret.returned) =>
        LET live == {i \in DOMAIN call.nodes : call.nodes[i].status # "pruned"}
            suggested == {{ret.value.merge_suggestions[k][1],
                           ret.value.merge_suggestions[k][2]} :
                             k \in DOMAIN ret.value.merge_suggestions}
        IN  /\ suggested = {{call.nodes[i].id, call.nodes[j].id} :
                               <<i, j>> \in {<<x, y>> \in live \X live :
                                               /\ x < y
                                               /\ SimilarNames(call.nodes[x].name,
                                                               call.nodes[y].name)}}
            /\ Len(ret.value.merge_suggestions) = Cardinality(suggested)
            /\ \A i, j \in live :
                  (/\ call.nodes[i].name = RichMessagingHandler
                   /\ call.nodes[j].name = HandlerForRichMessaging)
                  => {call.nodes[i].id, call.nodes[j].id} \in suggested

(***************************************************************************)
(* Claims about PCEC cycles                                                *)
(***************************************************************************)
RECURSIVE TrailingStagnant(_, _)
\* the number of non-substantive completions at the end of the first n ones
TrailingStagnant(log, n) ==
    IF n = 0 \/ log[n].substantive THEN 0 ELSE 1 + TrailingStagnant(log, n - 1)

\* C21: after any sequence of cycle completions the stagnation counter is
\* the number of consecutive non-substantive completions since the most
\* recent substantive one (0 when there is none yet or the last one was
\* substantive), and needsForceBreakthrough() is true exactly when that
\* number is at least 2.
C21_StagnantCount ==
    /\ stagnantCount = TrailingStagnant(completions, Len(completions))
    /\ NeedsForceBreakthrough <=> TrailingStagnant(completions, Len(completions)) >= 2

\* a substantive completion, then two stagnant ones: a breakthrough is due
C21_Witness ==
    /\ Len(completions) >= 4
    /\ \E n \in 2..(Len(completions) - 2) :
          /\ ~completions[n - 1].substantive
          /\ completions[n].substantive
          /\ \A k \in (n + 1)..Len(completions) : ~completions[k].substantive
    /\ NeedsForceBreakthrough

(***************************************************************************)
(* Claims about the VFM weights and score                                  *)
(***************************************************************************)
WeightNames == {"frequency", "failReduce", "userBurden", "selfCost"}

\* a weight is a number in [1, 5]
InRange(w) == ~w.nan /\ WEIGHT_MIN <= w.q /\ w.q <= WEIGHT_MAX

\* C22: mutateWeights returns four weights that each lie in [1, 5], for any
\* current weights, capsule list and event list, so the weights stay in
\* [1, 5] over successive adjustment rounds.
C22_WeightsInRange ==
    (call.fn = "mutateWeights" /\ ret.returned)
        => \A k \in WeightNames : InRange(ret.value[k])

\* every capsule of the recent batch failed validation
AllFailed(list) == \A i \in DOMAIN OrEmpty(list) : ~ValidationPassed(OrEmpty(list)[i])

\* the returned weight k is within 0.5 of the one passed in
DriftsAtMostHalf(k) ==
    /\ ~call.currentWeights[k].nan
    /\ ~ret.value[k].nan
    /\ ret.value[k].q - call.currentWeights[k].q <= MAX_ADJUSTMENT
    /\ call.currentWeights[k].q - ret.value[k].q <= MAX_ADJUSTMENT

NotLowered(k) ==
    /\ ~call.currentWeights[k].nan
    /\ ~ret.value[k].nan
    /\ ret.value[k].q >= call.currentWeights[k].q

C24_ScoreRange ==
    /\ (call.fn = "computeVScore" /\ ret.returned)
          => ~ret.value.nan /\ ret.value.score \in 0..100
    /\ (call.fn = "isWorthEvolving" /\ ret.returned)
          => (ret.value <=> call.score >= 40)

(***************************************************************************)
(* Claims about failures: the cycle boundary, the store, rollback          *)
(***************************************************************************)
\* C25: runCycle never throws past the cycle boundary: every failure inside
\* a cycle (unknown strategy name, failed validation, gate violation,
\* malformed gene or mutation data) is reported through the returned result
\* and audit events.
C25_CycleNeverThrows == res.op = "runCycle" => ~res.thrown

\* the text of the file is valid JSON (every line of it, for the event log)
ValidContent ==
    IF Loaders[call.fn] = "readJSON" THEN ~JSONParse(TrimText(call.file.text)).thrown
    ELSE \A i \in DOMAIN SplitLines(call.file.text, <<>>, <<>>) :
            ~JSONParse(SplitLines(call.file.text, <<>>, <<>>)[i]).thrown

EmptyCollection(value) ==
    value = JsonArray(<<>>) \/ value = <<>>

\* C26: loading genes, capsules, the tree or the event log from a store
\* whose content is not valid JSON returns an empty collection instead of
\* propagating an error.
C26_UnparsableIsEmpty ==
    (call.fn \in DOMAIN Loaders /\ ret.returned /\ ~ValidContent)
        => ~ret.thrown /\ EmptyCollection(ret.value)

RECURSIVE JoinPath(_)
\* the names of a location written as one path
JoinPath(names) ==
    IF names = <<>> THEN <<>>
    ELSE IF Len(names) = 1 THEN Head(names)
    ELSE Head(names) \o <<"/">> \o JoinPath(Tail(names))

\* the file names a location that the protected paths cover
LiesUnderProtected(file) ==
    file.kind = "string" /\ IsProtected(PathOf(JoinPath(Resolve(file.path))))

AttemptedOnce(attempts, op, indices) ==
    /\ {attempts[k].index : k \in {j \in DOMAIN attempts : attempts[j].op = op}} = indices
    /\ \A j, k \in DOMAIN attempts : attempts[j] = attempts[k] => j = k

\* every file of changedFiles and every file of newFiles that isProtected
\* lets through is attempted once, whatever failed before it
RollbackAttemptsAll ==
    (call.fn = "rollback" /\ ret.returned) =>
        /\ AttemptedOnce(ret.value.attempts, "restore", DOMAIN OrEmpty(call.changedFiles))
        /\ AttemptedOnce(ret.value.attempts, "delete",
                         {i \in DOMAIN OrEmpty(call.newFiles) :
                             ~IsProtected(OrEmpty(call.newFiles)[i])})

\* every failure and every skip is in the errors, and success tells that
\* there is none
RollbackCollectsErrors ==
    (call.fn = "rollback" /\ ret.returned) =>
        /\ Len(ret.value.errors)
             = Len(OrEmpty(call.changedFiles)) + Len(OrEmpty(call.newFiles))
               - Len(ret.value.restored) - Len(ret.value.deleted)
        /\ ret.value.success = (Len(ret.value.errors) = 0)
        /\ ret.value.hasError = ~ret.value.success

\* no file that was deleted lies under a protected path
RollbackSparesProtected ==
    (call.fn = "rollback" /\ ret.returned) =>
        \A i \in DOMAIN ret.value.deleted : ~LiesUnderProtected(ret.value.deleted[i])

\* C27: rollback is best-effort: it attempts every file of changedFiles and
\* every non-protected file of newFiles exactly once whatever failed before,
\* never deletes a new file that lies under a protected path, collects every
\* failure or skip into the aggregate error, and reports success exactly
\* when nothing failed or was skipped.
C27_BestEffort == RollbackAttemptsAll /\ RollbackCollectsErrors /\ RollbackSparesProtected

(***************************************************************************)
(* Claims about the signal extractor.                                      *)
(***************************************************************************)
\* the signals of the rules that look at the order of the entries
OrderBound(signal) == signal.head \in {"stable_success_plateau", "repeated_tool_usage"}

Unordered(signals) == {s \in signals : ~OrderBound(s)}

\* C28 as stated: extractSignals is order-insensitive: for every entry
\* sequence and every permutation of it, the set of signals returned is the
\* same.
C28_OrderInsensitive ==
    (call.fn = "extractSignals" /\ ret.returned) =>
        \A earlier \in call.seen : earlier = SignalSet(ret.value)

\* C28: for every entry sequence and every permutation of it, the signals
\* returned other than stable_success_plateau and repeated_tool_usage:<tool>
\* are the same set.
C28_OrderInsensitiveRules ==
    (call.fn = "extractSignals" /\ ret.returned) =>
        \A earlier \in call.seen : Unordered(earlier) = Unordered(SignalSet(ret.value))

\* a reordering changed the run of a tool and kept the count of its uses
C28_Witness ==
    /\ call.fn = "extractSignals" /\ ret.returned
    /\ \E earlier \in call.seen :
          /\ TokenOf("repeated_tool_usage", <<"r">>) \in earlier
          /\ TokenOf("repeated_tool_usage", <<"r">>) \notin SignalSet(ret.value)
          /\ TokenOf("high_tool_usage", <<"r">>) \in SignalSet(ret.value)

\* C29: extractSignals returns an empty result for an empty or null input,
\* and for every input no signal token appears more than once in the result.
C29_EmptyAndDistinct ==
    (call.fn = "extractSignals" /\ ret.returned) =>
        /\ OrEmpty(call.entries) = <<>> => ret.value = <<>>
        /\ \A i, j \in DOMAIN ret.value : ret.value[i] = ret.value[j] => i = j

\* three entries with the same error: log_error and the errsig are added
\* three times and returned once
C29_Witness ==
    /\ call.fn = "extractSignals" /\ ret.returned
    /\ call.entries = List(Rep(RecurringThreshold, SimpleError))
    /\ ret.value = <<Token("log_error"), TokenOf("errsig", <<"a", "_", "b">>),
                     Token("recurring_error")>>

\* the null input returned the empty result
C29_NullReturned ==
    call.fn = "extractSignals" /\ ret.returned /\ call.entries = NullList /\ ret.value = <<>>

(***************************************************************************)
(* Claims about the file of the capability tree.                           *)
(***************************************************************************)
\* C30: saving a capability tree and constructing a new CapabilityTree from
\* the store restores the same root and node map, for every tree state
\* reachable through the tree operations and whatever the tree asset held
\* before the first load (missing, empty or populated).
C30_SaveReloadRestores ==
    [][(treeRes.op = "save" /\ treeRes'.op = "load")
          => (~treeRes'.thrown /\ treeRoot' = treeRoot /\ treeNodes' = treeNodes
              /\ treeOrder' = treeOrder)]_vars

(***************************************************************************)
(* Claims about the interval of the scheduler.                             *)
(***************************************************************************)
InBounds(s) ==
    /\ ~s.intervalMs.nan
    /\ s.minIntervalMs <= s.intervalMs.q
    /\ s.intervalMs.q <= s.maxIntervalMs

\* the last adjustInterval call did what the levels are to do
LastAdjustmentAsStated ==
    adjustments # <<>> =>
        LET last == adjustments[Len(adjustments)]
            after == intervals.intervalMs
        IN  ~last.before.nan =>
              CASE last.level = "active" ->
                     after.q = Max((4 * last.before.q) \div 5, intervals.minIntervalMs)
                [] last.level = "saturated" ->
                     after.q = Min((13 * last.before.q) \div 10, intervals.maxIntervalMs)
                [] OTHER -> after = last.before

\* C31: after any sequence of adjustInterval calls, whatever interval the
\* scheduler was constructed with (option or environment override),
\* intervalMs lies between the floor minIntervalMs and the ceiling
\* maxIntervalMs: 'active' shortens it by 20% but not below the floor,
\* 'saturated' lengthens it by 30% but not above the ceiling, 'idle' and
\* unknown levels leave it unchanged.
C31_IntervalInBounds == InBounds(intervals) /\ LastAdjustmentAsStated

\* a scheduler constructed within its bounds stays within them
C31_StaysInBounds ==
    (adjustments # <<>> /\ ~adjustments[1].before.nan
     /\ intervals.minIntervalMs <= adjustments[1].before.q
     /\ adjustments[1].before.q <= intervals.maxIntervalMs
     /\ intervals.minIntervalMs <= intervals.maxIntervalMs)
        => InBounds(intervals)

(***************************************************************************)
(* Claims about writers of the asset store.                                *)
(***************************************************************************)
\* the objects capsules.json holds
StoredCapsules ==
    IF ReadJSON(storeFiles.capsules).thrown
       \/ ReadJSON(storeFiles.capsules).value.kind # "array"
    THEN {}
    ELSE {ReadJSON(storeFiles.capsules).value.items[i] :
             i \in DOMAIN ReadJSON(storeFiles.capsules).value.items}

\* C32: addCapsule is a non-atomic read-modify-write: when two writers
\* interleave their load and save steps, one of the two capsules can be
\* missing from the capsule store afterwards (the witness), whereas two
\* interleaved appendEvent calls never lose an event and keep events in
\* append order: the event log holds the events appended, in the order of
\* the appends.
C32_EventsInAppendOrder ==
    /\ ~ReadJSONL(storeFiles.events).thrown
    /\ ReadJSONL(storeFiles.events).value = [i \in DOMAIN appendLog |-> JsonObject(appendLog[i])]

\* both writers have added their capsule and appended their event without
\* an error, both events are in the log, and the capsule of the first
\* writer is missing
C32_Witness ==
    /\ \A w \in Writers : writers[w].tasks = <<>> /\ ~writers[w].thrown
    /\ \A w \in Writers : \E i \in DOMAIN appendLog : appendLog[i] = EventOf(w)
    /\ Len(appendLog) = 2
    /\ storeFiles.capsules = WriteJSON(JsonArray(<<CapsuleOf(2)>>))
    /\ CapsuleOf(1) \notin StoredCapsules

(***************************************************************************)
(* Claims about the order of an engine cycle                               *)
(***************************************************************************)
\* the events a step appends to the event log
AppendedEvents == SubSeq(events', Len(events) + 1, Len(events'))

\* the event types runCycle appends itself, in the order of its steps
CycleEventOrder == <<"signal_extracted", "gene_selected", "mutation_applied">>
\* the event types with which solidify reports what became of the mutation
OutcomeEventTypes == {"solidify_failed", "adl_violation", "solidify_success", "rollback"}
\* the reasons with which runCycle returns skipped: true before it mutates
SkipReasons == {"no_signals", "no_matching_gene", "strategy_blocked", "low_v_score"}

\* the strategy a cycle that has appended its signal_extracted event resolves
CycleStrategy ==
    IF ~Falsy(engine.strategy) THEN engine.strategy
    ELSE AutoDetectStrategy(SubSeq(events', 1, Len(events) + 1))

\* C33: in every engine cycle the events are appended in the order
\* signal_extracted, gene_selected, mutation_applied, then the events of the
\* solidification outcome; a cycle skipped for no_signals, no_matching_gene,
\* strategy_blocked or low_v_score appends no mutation_applied event, does
\* not call solidify and leaves the capsule store as it was; and under a
\* strategy whose weight for the selected gene's category is 0 the cycle
\* appends no mutation_applied event of that category.
C33_CycleOrder ==
    [][engine'.cycleCount = engine.cycleCount + 1 =>
         /\ res'.op = "runCycle"
         /\ Len(events') >= Len(events)
         /\ SubSeq(events', 1, Len(events)) = events
         /\ \A i \in DOMAIN AppendedEvents :
               IF i <= Len(CycleEventOrder)
               THEN AppendedEvents[i].event_type = CycleEventOrder[i]
               ELSE AppendedEvents[i].event_type \in OutcomeEventTypes
         /\ res'.reason \in SkipReasons =>
               /\ \A i \in DOMAIN AppendedEvents :
                     AppendedEvents[i].event_type # "mutation_applied"
               /\ \A i \in DOMAIN trace' : trace'[i] # "solidify"
               /\ capsules' = capsules
         /\ (Len(AppendedEvents) >= 2 /\ CycleStrategy \in DOMAIN STRATEGIES) =>
               \A i \in DOMAIN AppendedEvents :
                   (/\ AppendedEvents[i].event_type = "mutation_applied"
                    /\ AppendedEvents[i].payload.category \in DOMAIN STRATEGIES[CycleStrategy])
                   => STRATEGIES[CycleStrategy][AppendedEvents[i].payload.category] # 0]_vars

\* a cycle under repair-only has selected an innovate gene and was skipped
\* as strategy_blocked, its gene_selected event being the last of the log
C33_Witness ==
    /\ res.op = "runCycle"
    /\ res.reason = "strategy_blocked"
    /\ engine.strategy = "repair-only"
    /\ STRATEGIES[engine.strategy].innovate = 0
    /\ Len(events) >= 2
    /\ events[Len(events)].event_type = "gene_selected"
    /\ events[Len(events)].payload.category = "innovate"
    /\ events[Len(events) - 1].event_type = "signal_extracted"
    /\ \A i \in DOMAIN trace : trace[i] # "solidify"

(***************************************************************************)
(* Claims about the life of a PCEC cycle                                   *)
(***************************************************************************)
\* the cycle has been completed: its status is no longer 'running'
Ended(cycle) == cycle.status # "running"

\* C34: the status of a PCEC cycle changes only from running to completed
\* or from running to stagnant, a cycle that is completed or stagnant keeps
\* its status, and a cycle updates the global stagnation counter at most
\* once: a complete() call made when every cycle has already ended, which
\* can only be a second one on its cycle, leaves the counter as it was.
C34_StatusFinal ==
    [][/\ \A c \in DOMAIN pcecCycles :
             pcecCycles'[c].status # pcecCycles[c].status
                => /\ pcecCycles[c].status = "running"
                   /\ pcecCycles'[c].status \in {"completed", "stagnant"}
       /\ (/\ pcecOp'.op = "complete"
           /\ pcecCycles # <<>>
           /\ \A c \in DOMAIN pcecCycles : Ended(pcecCycles[c]))
          => stagnantCount' = stagnantCount]_vars

(***************************************************************************)
(* Claims about the paths of the capability tree                           *)
(***************************************************************************)
\* the score findPath gives the node: nothing unless the node is active
ActiveScore(id, signals) ==
    IF treeNodes[id].status # "active" THEN 0
    ELSE NodeScore(treeNodes[id], genes, signals)

\* path is the chain of parent links from the root sentinel down to node id
IsRootPath(path, id) ==
    /\ Len(path) >= 2
    /\ path[1] = "root"
    /\ path[Len(path)] = id
    /\ \A i \in 2..Len(path) :
          /\ path[i] \in DOMAIN treeNodes
          /\ treeNodes[path[i]].parent_id = (IF i = 2 THEN treeRoot.id ELSE path[i - 1])

\* C35: findPath(signals) returns the empty path exactly when no active node
\* scores above zero; otherwise it returns the root-to-node path of an
\* active node whose score is maximal among the active nodes, the first such
\* node in iteration order; a pruned or candidate node is never the target.
C35_FindPathTarget ==
    [][treeRes'.op = "findPath" =>
         LET signals == treeRes'.signals
             best == treeRes'.best
         IN  /\ (treeRes'.ends /\ treeRes'.path = <<>>)
                   <=> \A id \in DOMAIN treeNodes : ActiveScore(id, signals) = 0
             /\ (\E id \in DOMAIN treeNodes : ActiveScore(id, signals) > 0) =>
                   /\ best \in DOMAIN treeNodes
                   /\ treeNodes[best].status = "active"
                   /\ \A id \in DOMAIN treeNodes :
                         ActiveScore(id, signals) <= ActiveScore(best, signals)
                   /\ \A i, j \in DOMAIN treeOrder :
                         (treeOrder[j] = best /\ i < j)
                            => ActiveScore(treeOrder[i], signals) < ActiveScore(best, signals)
                   /\ treeRes'.ends
                   /\ IsRootPath(treeRes'.path, best)]_vars

(***************************************************************************)
(* Claims about the strategy an engine detects                             *)
(***************************************************************************)
\* the positions of the events of one type in a log
EventsOfType(evts, eventType) == {i \in DOMAIN evts : evts[i].event_type = eventType}

\* the position in the log at which the n-th last recorded cycle begins: a
\* cycle is recorded from its signal_extracted event on
CycleStart(evts, n) ==
    CHOOSE i \in EventsOfType(evts, "signal_extracted") :
        Cardinality({j \in EventsOfType(evts, "signal_extracted") : j >= i}) = n

\* the documented rules, read off the events the engine writes: cycles are
\* counted by their signal_extracted events, a cycle has output when a
\* mutation_applied event follows, and the solidification attempts are the
\* solidify_failed and solidify_success events of the recent window
DocumentedStrategy(evts) ==
    LET cycles == Cardinality(EventsOfType(evts, "signal_extracted"))
        recentWindow == JsSlice(evts, 0 - RatioWindow, Len(evts))
        failed == Cardinality(EventsOfType(recentWindow, "solidify_failed"))
        attempts == failed + Cardinality(EventsOfType(recentWindow, "solidify_success"))
    IN  IF cycles < EarlyCycles THEN "early-stabilize"
        ELSE IF \A i \in EventsOfType(evts, "mutation_applied") :
                    i < CycleStart(evts, EarlyCycles)
             THEN "innovate"
        ELSE IF attempts > 0 /\ 10 * failed > 4 * attempts THEN "repair-only"
        ELSE IF attempts > 0 /\ 10 * failed > 2 * attempts THEN "harden"
        ELSE "balanced"

\* C36: with no forced strategy, the strategy a cycle detects from the event
\* log the engine has written follows the documented rule order: fewer than
\* 5 cycles gives early-stabilize, 5 most recent cycles without output give
\* innovate, otherwise a solidify failure ratio above 40% gives repair-only,
\* above 20% harden, and anything else balanced.
C36_AutoDetectRules ==
    [][(/\ engine'.cycleCount = engine.cycleCount + 1
        /\ Falsy(engine.strategy)
        /\ Len(events') > Len(events))
       => AutoDetectStrategy(SubSeq(events', 1, Len(events) + 1))
             = DocumentedStrategy(SubSeq(events', 1, Len(events) + 1))]_vars

(***************************************************************************)
(* Claims about the gene store                                             *)
(***************************************************************************)
\* the gene invariant: a category of the three, signal patterns and strategy
\* steps that are non-empty lists
WellFormedGene(gene) ==
    /\ gene.category \in GENE_CATEGORIES
    /\ gene.signals_match.isArray /\ Len(gene.signals_match.items) > 0
    /\ gene.strategy.isArray /\ Len(gene.strategy.items) > 0

\* C37: every gene made by createGene or updateGene and stored through
\* addGene has a category in {repair, optimize, innovate}, a non-empty list
\* of signal patterns and a non-empty list of strategy steps, and no two
\* stored genes share an id.
C37_StoredGenesWellFormed ==
    /\ \A i \in DOMAIN genes : WellFormedGene(genes[i])
    /\ \A i, j \in DOMAIN genes : genes[i].id = genes[j].id => i = j

\* the id part of C37 holds: no two stored genes share an id
C37_UniqueIds == \A i, j \in DOMAIN genes : genes[i].id = genes[j].id => i = j

\* how often id stands in a child list
Occurrences(children, id) == Cardinality({i \in DOMAIN children.items : children.items[i] = id})

\* the child list of the root or of a node
ChildListOf(owner) ==
    IF owner = treeRoot.id THEN treeRoot.children ELSE treeNodes[owner].children

\* C38: after any sequence of addNode, growNode, removeNode, mergeNodes and
\* pruneStale calls on a tree that began with the root alone, every node's
\* parent_id names the root or an existing node whose child list holds the
\* node exactly once, every id in a child list names an existing node whose
\* parent_id is the owner of the list, no node is its own ancestor and
\* every node is reachable from the root.
C38_StillATree ==
    /\ \A id \in DOMAIN treeNodes :
          /\ treeNodes[id].parent_id = treeRoot.id \/ treeNodes[id].parent_id \in DOMAIN treeNodes
          /\ Occurrences(ChildListOf(treeNodes[id].parent_id), id) = 1
          /\ GetPath(id).ends
          /\ GetPath(id).path # <<>>
          /\ GetPath(id).path[1] = "root"
    /\ \A owner \in {treeRoot.id} \cup DOMAIN treeNodes :
          \A i \in DOMAIN ChildListOf(owner).items :
              /\ ChildListOf(owner).items[i] \in DOMAIN treeNodes
              /\ treeNodes[ChildListOf(owner).items[i]].parent_id = owner

\* C39: on every tree reached through addNode, growNode, removeNode and
\* mergeNodes, getPath(id) terminates for every id, and for an existing node
\* it returns the chain of parent links that starts at the root sentinel
\* and ends at that node.
C39_GetPathTerminates ==
    \A id \in OpsIds \cup DOMAIN treeNodes \cup {treeRoot.id} :
        /\ GetPath(id).ends
        /\ id \in DOMAIN treeNodes => IsRootPath(GetPath(id).path, id)

(***************************************************************************)
(* Claims about the quota of a strategy over engine cycles                 *)
(***************************************************************************)
\* the categories of the mutation_applied events of a log, in order
AppliedCategories(evts) ==
    LET applied == SelectSeq(evts, LAMBDA e : e.event_type = "mutation_applied")
    IN  [i \in DOMAIN applied |-> applied[i].payload.category]

\* how many of the last QuotaWindow applied mutations were of the category
RecentShare(applied, category) ==
    Cardinality({i \in DOMAIN applied :
                    i > Len(applied) - QuotaWindow /\ applied[i] = category})

\* the weight below which a category cannot fill a whole window
FullWindowWeight == 100 - QuotaTolerance

\* C40: under a fixed preset, a cycle applies a mutation of category c when
\* 10 or more mutations were applied before only if c accounts for at most
\* (weight of c + 20) percent of the 10 most recent mutation_applied events;
\* and for a category whose weight is below 80 the event log never holds 11
\* consecutive mutation_applied events of that category.
C40_QuotaOverCycles ==
    [][engine'.cycleCount = engine.cycleCount + 1 =>
         LET before == AppliedCategories(events)
             after == AppliedCategories(events')
             weights == STRATEGIES[engine.strategy]
         IN  /\ (Len(after) > Len(before) /\ Len(before) >= QuotaWindow) =>
                   (100 * RecentShare(before, after[Len(after)])) \div QuotaWindow
                       <= weights[after[Len(after)]] + QuotaTolerance
             /\ \A c \in DOMAIN weights :
                   weights[c] < FullWindowWeight =>
                       \A i \in DOMAIN after :
                           i + QuotaWindow <= Len(after)
                              => \E k \in i..(i + QuotaWindow) : after[k] # c]_vars

\* an eleventh mutation has been applied, the ten before it being such that
\* its category was within its quota
C40_Witness ==
    /\ res.op = "runCycle"
    /\ res.reason = "solidified"
    /\ Len(AppliedCategories(events)) > QuotaWindow
    /\ events[Len(events)].event_type = "mutation_applied"

====
